---- MODULE Spec2Model ----
(***************************************************************************)
(* Eisla component placement engine (src/python/placement.py).            *)
(*                                                                         *)
(* Units.  Lengths are integers in 0.01 mm (the resolution round(x, 2)     *)
(* keeps); values before rounding are integers in 0.001 mm.  Weights are   *)
(* in tenths.  A score is an integer in 1/4000 of the source's score unit, *)
(* which makes the three terms exact: a distance term is                   *)
(* hypot * weight * 4 and an overlap term is (2*overlap_x)*(2*overlap_y)*5.*)
(* math.hypot is the integer square root of the squared distance.  The     *)
(* temperature T is an integer in 1e-7.                                    *)
(***************************************************************************)
EXTENDS Integers, Sequences, FiniteSets, TLC

VARIABLES
    components_json,  \* content of data/components.json on disk
    db,               \* module global _db: [loaded, data]
    resolved_json,    \* job_dir/resolved.json
    board_json,       \* job_dir/board.json
    placement_json,   \* job_dir/placement.json ("absent" until written)
    pc,               \* position of run()
    board,            \* [w, h] after run() parsed board.json
    components,       \* list of [component_id, ref] after assign_refs
    placement,        \* seed returned by initial_placement
    mcu_ref,          \* ref of the MCU instance, or None
    current,          \* SA working state
    best,             \* SA best-seen state
    cur_s, best_s, init_s,
    T, itr,
    expired,          \* time.monotonic() - t0 > time_cap
    exit_why,         \* which condition ended the SA loop
    min_seen,         \* history: least score over the seed and accepted states
    steps,            \* history: placement steps run() has attempted
    calls,            \* history: number of direct calls of score()
    last_score,       \* history: value returned by the latest direct score() call
    twin,             \* a second run in the same process
    rng,              \* module random: number of values drawn from the shared generator
    solo,             \* history: the annealer of the first run had it drawn alone
    drawn,            \* history: the random draws of the latest iteration
    seeding,          \* initial_placement in progress: its locals, and its passes so far
    heap,             \* the dict objects of simulated_annealing and the names bound to them
    quiet_itr         \* exploration: the first quiet_itr iterations draw a zero step

vars == <<components_json, db, resolved_json, board_json, placement_json, pc,
          board, components, placement, mcu_ref, current, best, cur_s, best_s,
          init_s, T, itr, expired, exit_why, min_seen, steps, calls, last_score,
          twin, rng, solo, drawn, seeding, heap, quiet_itr>>

(***************************************************************************)
(* Bounds of the model.                                                    *)
(***************************************************************************)
MaxItr == 3          \* annealing iterations explored with every draw
QuietItr == 197      \* iterations before them that draw a zero translation
MaxRefs == 12        \* longest instance list given to assign_refs alone
MaxCalls == 2        \* direct calls of score() explored
ColdQuiet == 1687    \* zero-translation iterations of the runs that cool to T_min
MaxSteps == 2        \* iterations explored with their draws recorded
MaxSeedLen == 3      \* longest instance list of every mix given to initial_placement
MaxSameZone == 6     \* instances of one zone given to initial_placement

(***************************************************************************)
(* Python values.                                                          *)
(***************************************************************************)
None == "None"
NoDict == <<>>       \* {} : the dict with no key

Get(d, k, default) == IF k \in DOMAIN d THEN d[k] ELSE default

Max(a, b) == IF a >= b THEN a ELSE b
Min(a, b) == IF a <= b THEN a ELSE b
Abs(a) == IF a < 0 THEN -a ELSE a

RECURSIVE ISqrtIn(_, _, _)
ISqrtIn(n, lo, hi) ==
    IF lo >= hi THEN lo
    ELSE LET mid == (lo + hi + 1) \div 2
         IN IF mid * mid <= n THEN ISqrtIn(n, mid, hi) ELSE ISqrtIn(n, lo, mid - 1)

\* math.hypot, truncated to the length unit
hypot(dx, dy) == ISqrtIn(dx * dx + dy * dy, 0, Min(dx * dx + dy * dy, 46340))

\* round(v, 2): a value in 0.001 mm to the nearest 0.01 mm, ties to even
round2(v) ==
    LET q == v \div 10
        r == v % 10
    IN IF r < 5 THEN q
       ELSE IF r > 5 THEN q + 1
       ELSE IF q % 2 = 0 THEN q ELSE q + 1

(***************************************************************************)
(* Catalog: data/components.json is not part of the sources; the entries   *)
(* below exercise every fallback of the code.  Dimensions are in 0.01 mm.  *)
(***************************************************************************)
Catalog ==
    [id \in {"mcu_a", "cap_a", "reg_a", "hdr_a", "blk_a", "tp_a", "ic_a", "odd_a",
             "lcd_a"} |->
       CASE id = "mcu_a" -> [category |-> "mcu"]
         [] id = "cap_a" -> [category |-> "passive", subcategory |-> "capacitor"]
         [] id = "reg_a" -> [category |-> "power"]
         [] id = "hdr_a" -> [category |-> "connector", ref_designator_prefix |-> "U1",
                             placement_priority |-> 12]
         [] id = "blk_a" -> [dimensions_mm |-> [width |-> 1000, height |-> 1000],
                             placement_zone |-> "any", placement_priority |-> 2]
         [] id = "tp_a"  -> [category |-> "passive", subcategory |-> "test_point",
                             placement_zone |-> "centre", courtyard_clearance_mm |-> 50]
         [] id = "ic_a"  -> [category |-> "sensor", ref_designator_prefix |-> "U"]
         [] id = "odd_a" -> [category |-> "sensor", placement_zone |-> "corner"]
         [] id = "lcd_a" -> [category |-> "display"]]

\* the same file after an edit on disk
CatalogEdited ==
    [id \in DOMAIN Catalog |->
       IF id = "tp_a" THEN [category |-> "passive", placement_zone |-> "edge_left"]
       ELSE Catalog[id]]

LoadDbAlways(d, file) == [loaded |-> TRUE, data |-> file]

\* load_db: the global after the call
load_db(d, file) == IF d.loaded THEN d ELSE [loaded |-> TRUE, data |-> file]

GetCompOrMcu(cat, component_id) == Get(cat, component_id, [category |-> "mcu"])

get_comp(cat, component_id) == Get(cat, component_id, NoDict)

FALLBACK_DIMS ==
    [c \in {"mcu", "power", "sensor", "comms", "motor_driver", "display",
            "connector", "passive", "default"} |->
       CASE c = "mcu"          -> [width |-> 1000, height |-> 1000]
         [] c = "power"        -> [width |-> 600,  height |-> 400]
         [] c = "sensor"       -> [width |-> 500,  height |-> 400]
         [] c = "comms"        -> [width |-> 1600, height |-> 1600]
         [] c = "motor_driver" -> [width |-> 500,  height |-> 500]
         [] c = "display"      -> [width |-> 3000, height |-> 2500]
         [] c = "connector"    -> [width |-> 800,  height |-> 600]
         [] c = "passive"      -> [width |-> 100,  height |-> 50]
         [] c = "default"      -> [width |-> 500,  height |-> 500]]

FALLBACK_ZONE ==
    [c \in {"mcu", "power", "sensor", "comms", "motor_driver", "display",
            "connector", "passive"} |->
       CASE c = "mcu"          -> "centre"
         [] c = "power"        -> "power_column"
         [] c = "sensor"       -> "centre_right"
         [] c = "comms"        -> "edge_top"
         [] c = "motor_driver" -> "edge_bottom"
         [] c = "display"      -> "edge_top"
         [] c = "connector"    -> "edge_bottom"
         [] c = "passive"      -> "any"]

FALLBACK_PRIORITY ==
    [c \in {"mcu", "comms", "connector", "power", "motor_driver", "display",
            "sensor", "passive"} |->
       CASE c = "mcu" -> 1 [] c = "comms" -> 2 [] c = "connector" -> 3
         [] c = "power" -> 4 [] c = "motor_driver" -> 5 [] c = "display" -> 6
         [] c = "sensor" -> 7 [] c = "passive" -> 9]

\* comp.get("dimensions_mm") or FALLBACK_DIMS.get(category, FALLBACK_DIMS["default"])
DimsOf(comp) ==
    IF "dimensions_mm" \in DOMAIN comp THEN comp.dimensions_mm
    ELSE Get(FALLBACK_DIMS, Get(comp, "category", ""), FALLBACK_DIMS["default"])

\* comp.get("placement_zone") or FALLBACK_ZONE.get(category, "any")
ZoneOf(comp) ==
    IF "placement_zone" \in DOMAIN comp /\ comp.placement_zone # ""
    THEN comp.placement_zone
    ELSE Get(FALLBACK_ZONE, Get(comp, "category", ""), "any")

\* comp.get("placement_priority", FALLBACK_PRIORITY.get(category, 9))
PriorityOf(comp) ==
    Get(comp, "placement_priority", Get(FALLBACK_PRIORITY, Get(comp, "category", ""), 9))

(***************************************************************************)
(* Reference designator assignment.                                        *)
(***************************************************************************)
PREFIX_FALLBACK ==
    [c \in {"mcu", "power", "sensor", "comms", "motor_driver", "display",
            "connector", "passive"} |->
       CASE c = "display" -> "LCD" [] c = "connector" -> "J" [] c = "passive" -> "?"
         [] OTHER -> "U"]

SUB_PREFIX ==
    [s \in {"capacitor", "resistor", "diode", "diode_flyback", "led", "mosfet_n",
            "mosfet_p", "tvs_esd", "tvs_diode", "crystal", "inductor", "fuse",
            "test_point", "fiducial"} |->
       CASE s = "capacitor" -> "C" [] s = "resistor" -> "R" [] s = "led" -> "LED"
         [] s \in {"diode", "diode_flyback", "tvs_esd", "tvs_diode"} -> "D"
         [] s \in {"mosfet_n", "mosfet_p"} -> "Q" [] s = "crystal" -> "X"
         [] s = "inductor" -> "L" [] s = "fuse" -> "F" [] s = "test_point" -> "TP"
         [] s = "fiducial" -> "FID"]

PrefixCategoryFirst(comp) ==
    IF Get(comp, "ref_designator_prefix", "") # "" THEN comp.ref_designator_prefix
    ELSE IF Get(comp, "category", "") \in DOMAIN PREFIX_FALLBACK
         THEN PREFIX_FALLBACK[comp.category]
    ELSE IF Get(comp, "subcategory", "") \in DOMAIN SUB_PREFIX
         THEN SUB_PREFIX[comp.subcategory]
    ELSE "U"

\* comp.get("ref_designator_prefix") or SUB_PREFIX.get(subcategory) or
\* PREFIX_FALLBACK.get(category, "U"); an empty string is falsy
PrefixOf(comp) ==
    IF Get(comp, "ref_designator_prefix", "") # "" THEN comp.ref_designator_prefix
    ELSE IF Get(comp, "subcategory", "") \in DOMAIN SUB_PREFIX
         THEN SUB_PREFIX[comp.subcategory]
    ELSE Get(PREFIX_FALLBACK, Get(comp, "category", ""), "U")

\* f"{prefix}{n}"
RefName(prefix, n) == prefix \o ToString(n)

RECURSIVE AssignLoop(_, _, _, _)
AssignLoop(cat, rest, counters, result) ==
    IF rest = <<>> THEN result
    ELSE LET rc     == Head(rest)
             prefix == PrefixOf(get_comp(cat, rc.component_id))
             n      == Get(counters, prefix, 0) + 1
         IN AssignLoop(cat, Tail(rest),
                       [p \in DOMAIN counters \cup {prefix} |->
                           IF p = prefix THEN n ELSE counters[p]],
                       Append(result, [component_id |-> rc.component_id,
                                       ref |-> RefName(prefix, n)]))

AssignRefsOneCounter(cat, comps) ==
    [i \in 1..Len(comps) |->
        [component_id |-> comps[i].component_id,
         ref |-> RefName(PrefixOf(get_comp(cat, comps[i].component_id)), i)]]

assign_refs(cat, comps) == AssignLoop(cat, comps, NoDict, <<>>)

(***************************************************************************)
(* Zone model and initial placement.  The board is given in whole          *)
(* millimetres, so every zone centre is a whole number of 0.01 mm.         *)
(***************************************************************************)
MARGIN == 300

\* the zone names zone_centre knows
ZONES == {"edge_top", "edge_bottom", "edge_left", "edge_right", "centre",
          "centre_right", "power_column", "any"}

zone_centre(zone, w, h, margin) ==
    LET inner_w == w - 2 * margin
        inner_h == h - 2 * margin
    IN CASE zone = "edge_top"     -> [x |-> w \div 2, y |-> margin + inner_h \div 10]
         [] zone = "edge_bottom"  -> [x |-> w \div 2, y |-> margin + (inner_h * 9) \div 10]
         [] zone = "edge_left"    -> [x |-> margin + inner_w \div 10, y |-> h \div 2]
         [] zone = "edge_right"   -> [x |-> margin + (inner_w * 9) \div 10, y |-> h \div 2]
         [] zone = "centre"       -> [x |-> w \div 2, y |-> h \div 2]
         [] zone = "centre_right" -> [x |-> margin + (inner_w * 7) \div 10, y |-> h \div 2]
         [] zone = "power_column" -> [x |-> margin + (inner_w * 15) \div 100, y |-> h \div 2]
         [] zone = "any"          -> [x |-> w \div 2, y |-> h \div 2]
         [] OTHER                 -> [x |-> w \div 2, y |-> h \div 2]

\* max(margin + half, min(size - margin - half, v)), all in 0.001 mm
Clamp(v, half, size, margin) ==
    Max(margin * 10 + half, Min(size * 10 - margin * 10 - half, v))

\* sorted(components, key=priority): stable
RECURSIVE InsertByKey(_, _, _)
InsertByKey(cat, sorted, rc) ==
    IF sorted = <<>> THEN <<rc>>
    ELSE IF PriorityOf(get_comp(cat, Head(sorted).component_id))
              <= PriorityOf(get_comp(cat, rc.component_id))
         THEN <<Head(sorted)>> \o InsertByKey(cat, Tail(sorted), rc)
         ELSE <<rc>> \o sorted

RECURSIVE SortedByPriority(_, _)
SortedByPriority(cat, comps) ==
    IF comps = <<>> THEN <<>>
    ELSE InsertByKey(cat, SortedByPriority(cat, SubSeq(comps, 1, Len(comps) - 1)),
                     comps[Len(comps)])

GridCellTransposed(n) == [row |-> n % 4, col |-> n \div 4]

\* row = n // 4, col = n % 4
GridCell(n) == [row |-> n \div 4, col |-> n % 4]

\* max(dims[...] + 2.0, 6.0)
GridStep(size) == Max(size + 200, 600)

\* the seed position of rc in the grid cell `cell` of its zone; jx, jy are the
\* two random.uniform(-1.0, 1.0) draws
SeedAt(cat, rc, cell, w, h, margin, jx, jy) ==
    LET comp   == get_comp(cat, rc.component_id)
        dims   == DimsOf(comp)
        c      == zone_centre(ZoneOf(comp), w, h, margin)
        step_x == GridStep(dims.width)
        step_y == GridStep(dims.height)
        x      == c.x * 10 + (2 * cell.col - 3) * step_x * 5 + jx
        y      == c.y * 10 + (2 * cell.row - 1) * step_y * 5 + jy
    IN [x |-> round2(Clamp(x, dims.width * 5, w, margin)),
        y |-> round2(Clamp(y, dims.height * 5, h, margin)),
        rotation |-> 0]

\* One pass of the loop body: the seed position of rc when its zone already
\* holds n instances.
SeedPos(cat, rc, n, w, h, margin, jx, jy) ==
    SeedAt(cat, rc, GridCell(n), w, h, margin, jx, jy)

RECURSIVE PlaceLoop(_, _, _, _, _, _, _, _)
PlaceLoop(cat, rest, k, zone_offsets, pl, w, h, jit) ==
    IF rest = <<>> THEN pl
    ELSE LET rc   == Head(rest)
             zone == ZoneOf(get_comp(cat, rc.component_id))
             n    == Get(zone_offsets, zone, 0)
             pos  == SeedPos(cat, rc, n, w, h, MARGIN, jit[k].jx, jit[k].jy)
         IN PlaceLoop(cat, Tail(rest), k + 1,
                      [z \in DOMAIN zone_offsets \cup {zone} |->
                          IF z = zone THEN n + 1 ELSE zone_offsets[z]],
                      [r \in DOMAIN pl \cup {rc.ref} |->
                          IF r = rc.ref THEN pos ELSE pl[r]],
                      w, h, jit)

initial_placement(cat, comps, w, h, jit) ==
    PlaceLoop(cat, SortedByPriority(cat, comps), 1, NoDict, NoDict, w, h, jit)

(***************************************************************************)
(* Score function.                                                         *)
(***************************************************************************)
GetPosTurned(ref, pl) ==
    LET p == Get(pl, ref, NoDict)
    IN IF Get(p, "rotation", 0) \in {90, 270}
       THEN [x |-> Get(p, "y", 0), y |-> Get(p, "x", 0)]
       ELSE [x |-> Get(p, "x", 0), y |-> Get(p, "y", 0)]

\* get_pos: placement.get(ref, {}).get("x", 0), .get("y", 0)
get_pos(ref, pl) ==
    LET p == Get(pl, ref, NoDict) IN [x |-> Get(p, "x", 0), y |-> Get(p, "y", 0)]

\* get_dims: the footprint inflated by the clearance on all sides
get_dims(cat, component_id) ==
    LET comp      == get_comp(cat, component_id)
        dims      == DimsOf(comp)
        clearance == Get(comp, "courtyard_clearance_mm", 25)
    IN [w |-> dims.width + clearance * 2, h |-> dims.height + clearance * 2]

\* the test `dx < min_dx and dy < min_dy`, on doubled lengths
OverlapTest(dx2, dy2, sw, sh) == dx2 < sw /\ dy2 < sh

overlap_penalty(cat, a, b, pl) ==
    LET pa  == get_pos(a.ref, pl)
        pb  == get_pos(b.ref, pl)
        da  == get_dims(cat, a.component_id)
        dbb == get_dims(cat, b.component_id)
        dx2 == 2 * Abs(pa.x - pb.x)
        dy2 == 2 * Abs(pa.y - pb.y)
        sw  == da.w + dbb.w
        sh  == da.h + dbb.h
    IN IF OverlapTest(dx2, dy2, sw, sh) THEN (sw - dx2) * (sh - dy2) * 5 ELSE 0

ZoneWeightUnfloored(priority) == (10 - priority) * 3

\* max(0.1, (10 - priority) * 0.3), in tenths
ZoneWeight(priority) == Max(1, (10 - priority) * 3)

zone_penalty(cat, ref, component_id, pl, w, h) ==
    LET comp == get_comp(cat, component_id)
        zone == ZoneOf(comp)
    IN IF zone = "any" THEN 0
       ELSE LET p == get_pos(ref, pl)
                z == zone_centre(zone, w, h, MARGIN)
            IN hypot(p.x - z.x, p.y - z.y) * ZoneWeight(PriorityOf(comp)) * 4

WEIGHTS ==
    [c \in {"mcu", "power", "sensor", "comms", "motor_driver", "display",
            "connector", "passive"} |->
       CASE c = "mcu" -> 0 [] c = "power" -> 8 [] c = "sensor" -> 10
         [] c = "comms" -> 12 [] c = "motor_driver" -> 6 [] c = "display" -> 5
         [] c = "connector" -> 3 [] c = "passive" -> 1]

RECURSIVE WireSum(_, _, _, _, _)
WireSum(cat, comps, pl, mref, i) ==
    IF i > Len(comps) THEN 0
    ELSE LET rc == comps[i]
             m  == get_pos(mref, pl)
             p  == get_pos(rc.ref, pl)
             wt == Get(WEIGHTS, Get(get_comp(cat, rc.component_id), "category", "passive"), 5)
         IN (IF rc.ref = mref THEN 0 ELSE hypot(p.x - m.x, p.y - m.y) * wt * 4)
            + WireSum(cat, comps, pl, mref, i + 1)

WireLengthUnguarded(cat, comps, pl, mref) == WireSum(cat, comps, pl, mref, 1)

wire_length_score(cat, comps, pl, mref) ==
    IF mref = None \/ mref = "" \/ mref \notin DOMAIN pl THEN 0
    ELSE WireSum(cat, comps, pl, mref, 1)

RECURSIVE ZoneSum(_, _, _, _, _, _)
ZoneSum(cat, comps, pl, w, h, i) ==
    IF i > Len(comps) THEN 0
    ELSE zone_penalty(cat, comps[i].ref, comps[i].component_id, pl, w, h)
         + ZoneSum(cat, comps, pl, w, h, i + 1)

RECURSIVE OverlapSum(_, _, _, _, _)
OverlapSum(cat, comps, pl, i, j) ==
    IF i > Len(comps) THEN 0
    ELSE IF j > Len(comps) THEN OverlapSum(cat, comps, pl, i + 1, i + 2)
    ELSE overlap_penalty(cat, comps[i], comps[j], pl)
         + OverlapSum(cat, comps, pl, i, j + 1)

score(cat, comps, pl, w, h, mref) ==
    wire_length_score(cat, comps, pl, mref)
    + ZoneSum(cat, comps, pl, w, h, 1)
    + OverlapSum(cat, comps, pl, 1, 2)


(***************************************************************************)
(* Simulated annealing.                                                    *)
(***************************************************************************)
T0 == 800000000
T_MIN == 5000000
MAX_ITR == 8000
CHECK_EVERY == 200

CoolSlower(t) == (t \div 1000) * 998 + ((t % 1000) * 998) \div 1000

\* T *= alpha with alpha = 0.997
Cool(t) == (t \div 1000) * 997 + ((t % 1000) * 997) \div 1000

\* math.exp(-delta / T) is 0.0 once delta / T exceeds 745
ExpIsZero(delta, t) == delta > (t \div 2500) * 745

AcceptsOnlyLucky(delta, t, lucky) == lucky

\* delta < 0 or random.random() < math.exp(-delta / T); lucky stands for the
\* outcome of the comparison when 0 < exp(..) < 1
Accepts(delta, t, lucky) ==
    delta < 0 \/ (~ExpIsZero(delta, t) /\ (delta = 0 \/ lucky))

\* {ref: dict(pos) for ref, pos in placement.items()}
CopyOf(pl) == [r \in DOMAIN pl |-> [k \in DOMAIN pl[r] |-> pl[r][k]]]

IdOfRef(comps, ref) ==
    comps[CHOOSE i \in 1..Len(comps) :
             /\ comps[i].ref = ref
             /\ \A j \in 1..(i - 1) : comps[j].ref # ref].component_id

\* the translate move: Gaussian noise nx, ny (0.001 mm), clamp, round
Translated(cat, comps, cand, ref, nx, ny, w, h) ==
    LET dims  == DimsOf(get_comp(cat, IdOfRef(comps, ref)))
        new_x == Clamp(cand[ref].x * 10 + nx, dims.width * 5, w, MARGIN)
        new_y == Clamp(cand[ref].y * 10 + ny, dims.height * 5, h, MARGIN)
    IN [cand EXCEPT ![ref] = [x |-> round2(new_x), y |-> round2(new_y),
                              rotation |-> cand[ref].rotation]]

RotatedBackwards(cand, ref) ==
    [cand EXCEPT ![ref] = [cand[ref] EXCEPT !.rotation = cand[ref].rotation - 90]]

\* the rotate move
Rotated(cand, ref) ==
    [cand EXCEPT ![ref] = [cand[ref] EXCEPT !.rotation = (cand[ref].rotation + 90) % 360]]

SwappedPositions(cat, comps, cand, r1, r2, w, h) ==
    [cand EXCEPT ![r1] = [cand[r2] EXCEPT !.rotation = cand[r1].rotation],
                 ![r2] = [cand[r1] EXCEPT !.rotation = cand[r2].rotation]]

\* the swap move: candidate[r1], candidate[r2] = candidate[r2], candidate[r1]
Swapped(cat, comps, cand, r1, r2, w, h) ==
    [cand EXCEPT ![r1] = cand[r2], ![r2] = cand[r1]]

\* the move drawn, carried out on the dict cand
MoveOn(cat, comps, cand, w, h, d) ==
    CASE d.move = "translate" -> Translated(cat, comps, cand, d.ref, d.nx, d.ny, w, h)
      [] d.move = "rotate"    -> Rotated(cand, d.ref)
      [] d.move = "swap"      -> Swapped(cat, comps, cand, d.ref, d.ref2, w, h)

\* candidate = copy of current, then the move
Candidate(cat, comps, cur, w, h, d) == MoveOn(cat, comps, CopyOf(cur), w, h, d)

BestAfterAnyAccept(r, new_s) == TRUE

ImprovesOrTies(r, new_s) == new_s <= r.best_s

ImprovesNever(r, new_s) == FALSE

\* if cur_s < best_s, after an accepted move
Improves(r, new_s) == new_s < r.best_s

\* The state of one annealer: [current, best, cur_s, best_s, init_s, T, itr].
\* sa_begin is lines 280-294, sa_iteration one pass of the loop body.
sa_begin(cat, comps, pl, w, h, mref) ==
    LET s == score(cat, comps, CopyOf(pl), w, h, mref)
    IN [current |-> CopyOf(pl), best |-> CopyOf(pl), cur_s |-> s, best_s |-> s,
        init_s |-> s, T |-> T0, itr |-> 0]

SaIterationKeepsTOnReject(cat, comps, w, h, mref, r, d) ==
    LET cand  == Candidate(cat, comps, r.current, w, h, d)
        new_s == score(cat, comps, cand, w, h, mref)
    IN IF Accepts(new_s - r.cur_s, r.T, d.lucky)
       THEN [current |-> cand, cur_s |-> new_s,
             best    |-> IF Improves(r, new_s) THEN CopyOf(cand) ELSE r.best,
             best_s  |-> IF Improves(r, new_s) THEN new_s ELSE r.best_s,
             init_s  |-> r.init_s, T |-> Cool(r.T), itr |-> r.itr + 1]
       ELSE [r EXCEPT !.itr = r.itr + 1]

sa_iteration(cat, comps, w, h, mref, r, d) ==
    IF d.move = "swap" /\ Len(comps) < 2
    THEN [r EXCEPT !.itr = r.itr + 1]
    ELSE LET cand  == Candidate(cat, comps, r.current, w, h, d)
             new_s == score(cat, comps, cand, w, h, mref)
             delta == new_s - r.cur_s
         IN IF Accepts(delta, r.T, d.lucky)
            THEN [current |-> cand,
                  cur_s   |-> new_s,
                  best    |-> IF Improves(r, new_s) THEN CopyOf(cand) ELSE r.best,
                  best_s  |-> IF Improves(r, new_s) THEN new_s ELSE r.best_s,
                  init_s  |-> r.init_s,
                  T       |-> Cool(r.T),
                  itr     |-> r.itr + 1]
            ELSE [r EXCEPT !.T = Cool(r.T), !.itr = r.itr + 1]

LoopGuardHot(r) == r.itr < MAX_ITR

\* while T > T_min and itr < MAX_ITR
LoopGuard(r) == r.T > T_MIN /\ r.itr < MAX_ITR

TimeBreakRarely(r, exp) == r.itr % (5 * CHECK_EVERY) = 0 /\ exp

\* if itr % 200 == 0 and time.monotonic() - t0 > time_cap: break
TimeBreak(r, exp) == r.itr % CHECK_EVERY = 0 /\ exp


(***************************************************************************)
(* run(job_dir): the pipeline, one action per step.                        *)
(***************************************************************************)
JITTER == 1000       \* random.uniform(-1.0, 1.0), in 0.001 mm
NoiseStep == 3000    \* size of the Gaussian steps drawn for translate moves

Jitters == {-JITTER, JITTER}
Noises == {-NoiseStep, NoiseStep}

DbEmpty == [loaded |-> FALSE, data |-> NoDict]
Absent == [status |-> "absent"]
Unreadable == [status |-> "unreadable"]
File(d) == [status |-> "ok", data |-> d]
TwinIdle == [pc |-> "idle"]

Rc(id) == [component_id |-> id]
Resolved(l) == File([resolved_components |-> l])
ResolvedMcu(l, id) == File([resolved_components |-> l, mcu |-> [id |-> id]])
SmallBoard == File([dimensions_mm |-> <<30, 20>>])

\* the jobs given to run(): [resolved, board]
TrivialJobs ==
    [resolved : {Absent, Unreadable, File(NoDict), Resolved(<<>>),
                 Resolved(<<Rc("mcu_a")>>), ResolvedMcu(<<Rc("mcu_a")>>, "mcu_a"),
                 Resolved(<<Rc("nope")>>)},
     board : {Absent, Unreadable, File(NoDict), SmallBoard}]

AnnealJobs ==
    [resolved : {Resolved(<<Rc("blk_a"), Rc("tp_a")>>),
                 ResolvedMcu(<<Rc("reg_a"), Rc("mcu_a")>>, "mcu_a"),
                 ResolvedMcu(<<Rc("nope"), Rc("cap_a")>>, "mcu_a")},
     board : {SmallBoard}]

Jobs == TrivialJobs \cup AnnealJobs

\* variables of the annealer, of the job, and of the other entry points
sa_vars == <<current, best, cur_s, best_s, init_s, T, itr>>
job_vars == <<components_json, resolved_json, board_json, quiet_itr>>
aux_vars == <<calls, last_score, twin, rng, solo, drawn, seeding, heap>>

SaRec == [current |-> current, best |-> best, cur_s |-> cur_s, best_s |-> best_s,
          init_s |-> init_s, T |-> T, itr |-> itr]

SetSa(r) ==
    /\ current' = r.current
    /\ best' = r.best
    /\ cur_s' = r.cur_s
    /\ best_s' = r.best_s
    /\ init_s' = r.init_s
    /\ T' = r.T
    /\ itr' = r.itr

InitCommon ==
    /\ components_json = Catalog
    /\ placement_json = Absent
    /\ board = NoDict
    /\ components = <<>>
    /\ placement = NoDict
    /\ mcu_ref = None
    /\ current = NoDict
    /\ best = NoDict
    /\ cur_s = 0 /\ best_s = 0 /\ init_s = 0
    /\ T = 0 /\ itr = 0
    /\ expired = FALSE
    /\ exit_why = "none"
    /\ min_seen = 0
    /\ steps = {}
    /\ calls = 0
    /\ last_score = 0
    /\ twin = TwinIdle
    /\ rng = 0
    /\ solo = NoDict
    /\ drawn = NoDict
    /\ seeding = NoDict
    /\ heap = NoDict

Init ==
    /\ InitCommon
    /\ db = DbEmpty
    /\ \E job \in Jobs : resolved_json = job.resolved /\ board_json = job.board
    /\ quiet_itr = QuietItr
    /\ pc = "start"

\* with open(job_path / "resolved.json") ...: json.load(f)
OpenResolved ==
    /\ pc = "start"
    /\ pc' = IF resolved_json.status = "ok" THEN "open_board" ELSE "raised"
    /\ UNCHANGED <<job_vars, db, placement_json, board, components, placement, mcu_ref,
                   sa_vars, expired, exit_why, min_seen, steps, aux_vars>>

\* with open(job_path / "board.json") ...; dims; w, h
OpenBoard ==
    /\ pc = "open_board"
    /\ IF board_json.status = "ok"
       THEN LET dims == Get(board_json.data, "dimensions_mm", <<100, 80>>)
            IN /\ board' = [w |-> dims[1] * 100, h |-> dims[2] * 100]
               /\ pc' = "check"
       ELSE /\ pc' = "raised"
            /\ board' = board
    /\ UNCHANGED <<job_vars, db, placement_json, components, placement, mcu_ref,
                   sa_vars, expired, exit_why, min_seen, steps, aux_vars>>

ResolvedComponents == Get(resolved_json.data, "resolved_components", <<>>)

\* if not resolved_components: write the empty result and return
CheckComponents ==
    /\ pc = "check"
    /\ IF ResolvedComponents = <<>>
       THEN /\ placement_json' =
                 [status |-> "written", board |-> board, components |-> <<>>,
                  score |-> [initial |-> 0, final |-> 0], iterations |-> 0]
            /\ pc' = "returned"
       ELSE /\ placement_json' = placement_json
            /\ pc' = "refs"
    /\ UNCHANGED <<job_vars, db, board, components, placement, mcu_ref,
                   sa_vars, expired, exit_why, min_seen, steps, aux_vars>>

\* components = assign_refs(resolved_components)
AssignRefs ==
    /\ pc = "refs"
    /\ db' = load_db(db, components_json)
    /\ components' = assign_refs(db'.data, ResolvedComponents)
    /\ steps' = steps \cup {"assign_refs"}
    /\ pc' = "seed"
    /\ UNCHANGED <<job_vars, placement_json, board, placement, mcu_ref,
                   sa_vars, expired, exit_why, min_seen, aux_vars>>

\* next((rc["ref"] for rc in components if rc["component_id"] == mcu_id), None)
McuRef(res, comps) ==
    LET mcu_id == Get(Get(res.data, "mcu", NoDict), "id", None)
        hits   == {i \in 1..Len(comps) : comps[i].component_id = mcu_id}
    IN IF hits = {} THEN None
       ELSE comps[CHOOSE i \in hits : \A j \in hits : i <= j].ref

JitterDraws(n) == [1..n -> [jx : Jitters, jy : Jitters]]

\* placement = initial_placement(components, w, h); mcu_ref
InitialPlacement ==
    /\ pc = "seed"
    /\ db' = load_db(db, components_json)
    /\ \E jit \in JitterDraws(Len(components)) :
          placement' = initial_placement(db'.data, components, board.w, board.h, jit)
    /\ mcu_ref' = McuRef(resolved_json, components)
    /\ steps' = steps \cup {"initial_placement"}
    /\ pc' = "anneal"
    /\ UNCHANGED <<job_vars, placement_json, board, components,
                   sa_vars, expired, exit_why, min_seen, aux_vars>>

TrivialAtMostNone(comps) == Len(comps) < 1

\* if len(components) <= 1
Trivial(comps) == Len(comps) <= 1

\* simulated_annealing(...), up to the loop
AnnealBegin ==
    /\ pc = "anneal"
    /\ steps' = steps \cup {"simulated_annealing"}
    /\ IF Trivial(components)
       THEN /\ SetSa([SaRec EXCEPT !.best = placement, !.init_s = 0, !.best_s = 0,
                                   !.itr = 0])
            /\ exit_why' = "trivial"
            /\ min_seen' = min_seen
            /\ db' = db
            /\ pc' = "assemble"
       ELSE /\ db' = load_db(db, components_json)
            /\ SetSa(sa_begin(db'.data, components, placement, board.w, board.h, mcu_ref))
            /\ min_seen' = init_s'
            /\ exit_why' = exit_why
            /\ pc' = "loop"
    /\ UNCHANGED <<job_vars, placement_json, board, components, placement, mcu_ref,
                   expired, aux_vars>>

\* the wall clock passes t0 + time_cap
Tick ==
    /\ pc = "loop"
    /\ ~expired
    /\ expired' = TRUE
    /\ UNCHANGED <<job_vars, db, placement_json, pc, board, components, placement,
                   mcu_ref, sa_vars, exit_why, min_seen, steps, aux_vars>>

ExitReason(r) ==
    IF r.T <= T_MIN THEN "cold" ELSE IF r.itr >= MAX_ITR THEN "max_itr" ELSE "time"

\* the loop ends: while-condition false, or break at the periodic check
LoopExit ==
    /\ pc = "loop"
    /\ ~LoopGuard(SaRec) \/ TimeBreak(SaRec, expired)
    /\ exit_why' = ExitReason(SaRec)
    /\ pc' = "assemble"
    /\ UNCHANGED <<job_vars, db, placement_json, board, components, placement,
                   mcu_ref, sa_vars, expired, min_seen, steps, aux_vars>>

Refs == {components[i].ref : i \in 1..Len(components)}

Draw(move, ref, ref2, nx, ny, lucky) ==
    [move |-> move, ref |-> ref, ref2 |-> ref2, nx |-> nx, ny |-> ny, lucky |-> lucky]

\* the draws explored at iteration i: a zero translation of the first instance
\* for the first quiet_itr iterations, then every draw for MaxItr iterations
TranslateDraws(comps, i, quiet) ==
    IF i < quiet THEN {Draw("translate", comps[1].ref, comps[1].ref, 0, 0, FALSE)}
    ELSE IF i >= quiet + MaxItr THEN {}
    ELSE {Draw("translate", comps[k].ref, comps[k].ref, nx, ny, l) :
             k \in 1..Len(comps), nx \in Noises, ny \in Noises, l \in BOOLEAN}

RotateDraws(comps, i, quiet) ==
    IF i < quiet \/ i >= quiet + MaxItr THEN {}
    ELSE {Draw("rotate", comps[k].ref, comps[k].ref, 0, 0, l) :
             k \in 1..Len(comps), l \in BOOLEAN}

SwapDraws(comps, i, quiet) ==
    IF i < quiet \/ i >= quiet + MaxItr THEN {}
    ELSE {d \in {Draw("swap", comps[k].ref, comps[m].ref, 0, 0, l) :
                     k \in 1..Len(comps), m \in 1..Len(comps), l \in BOOLEAN} :
             d.ref # d.ref2}

\* one pass of the loop body with the random draws d
IterateMain(d) ==
    /\ pc = "loop"
    /\ LoopGuard(SaRec) /\ ~TimeBreak(SaRec, expired)
    /\ SetSa(sa_iteration(db.data, components, board.w, board.h, mcu_ref, SaRec, d))
    /\ min_seen' = IF cur_s' # cur_s \/ current' # current
                   THEN Min(min_seen, cur_s') ELSE min_seen
    /\ UNCHANGED <<job_vars, db, placement_json, pc, board, components, placement,
                   mcu_ref, expired, exit_why, steps, calls, last_score, seeding>>

Iterate(d) == IterateMain(d) /\ UNCHANGED <<twin, rng, solo, drawn, heap>>

MoveTranslate ==
    /\ pc = "loop"
    /\ \E d \in TranslateDraws(components, itr, quiet_itr) : Iterate(d)

MoveRotate ==
    /\ pc = "loop"
    /\ \E d \in RotateDraws(components, itr, quiet_itr) : Iterate(d)

MoveSwap ==
    /\ pc = "loop"
    /\ \E d \in SwapDraws(components, itr, quiet_itr) : Iterate(d)

\* round(s, 1): a score to tenths, ties to even
round1(s) ==
    LET q == s \div 400
        r == s % 400
    IN IF r < 200 THEN q
       ELSE IF r > 200 THEN q + 1
       ELSE IF q % 2 = 0 THEN q ELSE q + 1

OutputComponent(cat, rc, best_placement, w, h) ==
    LET comp == get_comp(cat, rc.component_id)
        dims == DimsOf(comp)
        pos  == Get(best_placement, rc.ref,
                    [x |-> w \div 2, y |-> h \div 2, rotation |-> 0])
    IN [component_id |-> rc.component_id, ref |-> rc.ref,
        category |-> Get(comp, "category", "passive"),
        subcategory |-> Get(comp, "subcategory", ""),
        x_mm |-> pos.x, y_mm |-> pos.y, rotation_deg |-> pos.rotation,
        width_mm |-> dims.width, height_mm |-> dims.height,
        placement_zone |-> Get(comp, "placement_zone", "any")]

\* build the output and write placement.json (improvement_pct is left out)
Assemble ==
    /\ pc = "assemble"
    /\ db' = load_db(db, components_json)
    /\ placement_json' =
          [status |-> "written", board |-> board,
           components |-> [i \in 1..Len(components) |->
                              OutputComponent(db'.data, components[i], best, board.w, board.h)],
           mcu_ref |-> mcu_ref,
           score |-> [initial |-> round1(init_s), final |-> round1(best_s)],
           iterations |-> itr]
    /\ pc' = "returned"
    /\ UNCHANGED <<job_vars, board, components, placement, mcu_ref, sa_vars,
                   expired, exit_why, min_seen, steps, aux_vars>>

Next ==
    \/ OpenResolved \/ OpenBoard \/ CheckComponents \/ AssignRefs
    \/ InitialPlacement \/ AnnealBegin \/ Tick \/ LoopExit
    \/ MoveTranslate \/ MoveRotate \/ MoveSwap \/ Assemble

Spec == Init /\ [][Next]_vars

(***************************************************************************)
(* assign_refs called on its own, on lists long enough for two-digit       *)
(* counters.                                                               *)
(***************************************************************************)
RECURSIVE SeqsUpTo(_, _)
SeqsUpTo(S, n) ==
    IF n = 0 THEN {<<>>}
    ELSE LET shorter == SeqsUpTo(S, n - 1)
         IN shorter \cup {Append(q, x) : q \in {t \in shorter : Len(t) = n - 1}, x \in S}

RefIds == {"ic_a", "hdr_a"}
MixedIds == {"mcu_a", "cap_a", "tp_a", "nope", "hdr_a"}

RefLists ==
    {[i \in 1..Len(q) |-> Rc(q[i])] : q \in SeqsUpTo(RefIds, MaxRefs) \cup SeqsUpTo(MixedIds, 3)}

InitRefs ==
    /\ InitCommon
    /\ db \in {DbEmpty, [loaded |-> TRUE, data |-> Catalog]}
    /\ resolved_json \in {Resolved(l) : l \in RefLists}
    /\ board_json = SmallBoard
    /\ quiet_itr = 0
    /\ pc = "api"

CallAssignRefs ==
    /\ pc = "api"
    /\ db' = load_db(db, components_json)
    /\ components' = assign_refs(db'.data, ResolvedComponents)
    /\ pc' = "api_done"
    /\ UNCHANGED <<job_vars, placement_json, board, placement, mcu_ref, sa_vars,
                   expired, exit_why, min_seen, steps, aux_vars>>

NextRefs == CallAssignRefs

SpecRefs == InitRefs /\ [][NextRefs]_vars

(***************************************************************************)
(* assign_refs called on its own under a catalog whose entry gen_a takes   *)
(* every shape: each of prefix, subcategory and category absent, empty,    *)
(* listed in the code's tables, or unlisted.                               *)
(***************************************************************************)
GenPrefixes == {None, "", "U1", "K"}
GenSubcategories == {None, "", "battery"} \cup DOMAIN SUB_PREFIX
GenCategories == {None, "", "module"} \cup DOMAIN PREFIX_FALLBACK

\* a catalog entry; None stands for a key the entry does not have
GenEntry(pre, sub, cat) ==
    [k \in (IF pre = None THEN {} ELSE {"ref_designator_prefix"})
           \cup (IF sub = None THEN {} ELSE {"subcategory"})
           \cup (IF cat = None THEN {} ELSE {"category"}) |->
        CASE k = "ref_designator_prefix" -> pre
          [] k = "subcategory" -> sub
          [] k = "category" -> cat]

GenCatalogs ==
    {[id \in {"gen_a"} |-> GenEntry(pre, sub, cat)] :
        pre \in GenPrefixes, sub \in GenSubcategories, cat \in GenCategories}

GenList == <<Rc("gen_a"), Rc("nope"), Rc("gen_a")>>

InitPrefix ==
    /\ components_json \in GenCatalogs
    /\ db = DbEmpty
    /\ resolved_json = Resolved(GenList)
    /\ board_json = SmallBoard
    /\ placement_json = Absent
    /\ board = NoDict
    /\ components = <<>>
    /\ placement = NoDict
    /\ mcu_ref = None
    /\ current = NoDict
    /\ best = NoDict
    /\ cur_s = 0 /\ best_s = 0 /\ init_s = 0
    /\ T = 0 /\ itr = 0
    /\ expired = FALSE
    /\ exit_why = "none"
    /\ min_seen = 0
    /\ steps = {}
    /\ calls = 0
    /\ last_score = 0
    /\ twin = TwinIdle
    /\ rng = 0
    /\ solo = NoDict
    /\ drawn = NoDict
    /\ seeding = NoDict
    /\ heap = NoDict
    /\ quiet_itr = 0
    /\ pc = "api"

NextPrefix == CallAssignRefs

SpecPrefix == InitPrefix /\ [][NextPrefix]_vars

(***************************************************************************)
(* score called on its own, on placements drawn from a grid.               *)
(***************************************************************************)
GridX == {800, 1200}
GridY == {800, 1300}
GridRot == {0, 90}

ScoreLists ==
    { <<Rc("reg_a"), Rc("reg_a")>>, <<Rc("mcu_a"), Rc("tp_a")>>,
      <<Rc("hdr_a"), Rc("blk_a")>>, <<Rc("mcu_a"), Rc("reg_a"), Rc("nope")>>,
      <<Rc("odd_a"), Rc("cap_a")>> }

InitScore ==
    /\ components_json = Catalog
    /\ db \in {DbEmpty, [loaded |-> TRUE, data |-> Catalog]}
    /\ resolved_json \in {ResolvedMcu(l, "mcu_a") : l \in ScoreLists}
    /\ board_json = SmallBoard
    /\ placement_json = Absent
    /\ board = [w |-> 3000, h |-> 2000]
    /\ components = assign_refs(Catalog, ResolvedComponents)
    /\ placement = NoDict
    /\ mcu_ref \in {None, McuRef(resolved_json, components)}
    /\ current \in [{components[i].ref : i \in 1..Len(components)} ->
                       [x : GridX, y : GridY, rotation : GridRot]]
    /\ best = NoDict
    /\ cur_s = 0 /\ best_s = 0 /\ init_s = 0
    /\ T = 0 /\ itr = 0
    /\ expired = FALSE
    /\ exit_why = "none"
    /\ min_seen = 0
    /\ steps = {}
    /\ calls = 0
    /\ last_score = 0
    /\ twin = TwinIdle
    /\ rng = 0
    /\ solo = NoDict
    /\ drawn = NoDict
    /\ seeding = NoDict
    /\ heap = NoDict
    /\ quiet_itr = 0
    /\ pc = "api"

\* s = score(components, current, w, h, mcu_ref)
CallScore ==
    /\ pc = "api"
    /\ calls < MaxCalls
    /\ db' = load_db(db, components_json)
    /\ last_score' = score(db'.data, components, current, board.w, board.h, mcu_ref)
    /\ calls' = calls + 1
    /\ UNCHANGED <<job_vars, placement_json, pc, board, components, placement, mcu_ref,
                   sa_vars, expired, exit_why, min_seen, steps, twin, rng, solo, drawn,
                   seeding, heap>>

\* data/components.json is rewritten on disk
EditCatalog ==
    /\ pc = "api"
    /\ components_json = Catalog
    /\ components_json' = CatalogEdited
    /\ UNCHANGED <<resolved_json, board_json, quiet_itr, db, placement_json, pc, board,
                   components, placement, mcu_ref, sa_vars, expired, exit_why, min_seen,
                   steps, aux_vars>>

NextScore == CallScore \/ EditCatalog

SpecScore == InitScore /\ [][NextScore]_vars

(***************************************************************************)
(* Two runs of one job that draw the same random values (same seed), each  *)
(* with its own reading of the wall clock.  twin is the second run:        *)
(* [pc, sa, expired].                                                      *)
(***************************************************************************)
PairList == <<Rc("blk_a"), Rc("tp_a")>>

InitPair ==
    /\ components_json = Catalog
    /\ db = [loaded |-> TRUE, data |-> Catalog]
    /\ resolved_json = Resolved(PairList)
    /\ board_json = SmallBoard
    /\ placement_json = Absent
    /\ board = [w |-> 3000, h |-> 2000]
    /\ components = assign_refs(Catalog, PairList)
    /\ placement \in {initial_placement(Catalog, components, board.w, board.h, jit) :
                         jit \in JitterDraws(Len(components))}
    /\ mcu_ref = McuRef(resolved_json, components)
    /\ LET r == sa_begin(Catalog, components, placement, board.w, board.h, mcu_ref)
       IN /\ current = r.current /\ best = r.best
          /\ cur_s = r.cur_s /\ best_s = r.best_s /\ init_s = r.init_s
          /\ T = r.T /\ itr = r.itr
          /\ min_seen = r.init_s
          /\ twin = [pc |-> "loop", sa |-> r, expired |-> FALSE]
    /\ rng = 0
    /\ solo = NoDict
    /\ drawn = NoDict
    /\ seeding = NoDict
    /\ heap = NoDict
    /\ expired = FALSE
    /\ exit_why = "none"
    /\ steps = {"assign_refs", "initial_placement", "simulated_annealing"}
    /\ calls = 0
    /\ last_score = 0
    /\ quiet_itr = QuietItr
    /\ pc = "loop"

main_vars == <<job_vars, db, placement_json, pc, board, components, placement, mcu_ref,
               sa_vars, expired, exit_why, min_seen, steps, calls, last_score, rng, solo,
               drawn, seeding, heap>>

AllDraws(comps, i, quiet) ==
    TranslateDraws(comps, i, quiet) \cup RotateDraws(comps, i, quiet)
    \cup SwapDraws(comps, i, quiet)

TwinCanIterate == twin.pc = "loop" /\ LoopGuard(twin.sa) /\ ~TimeBreak(twin.sa, twin.expired)

TwinIterated(d) ==
    [twin EXCEPT !.sa = sa_iteration(db.data, components, board.w, board.h, mcu_ref,
                                     twin.sa, d)]

\* both runs execute the same iteration with the same draws
PairMove ==
    /\ pc = "loop"
    /\ TwinCanIterate
    /\ \E d \in AllDraws(components, itr, quiet_itr) :
          IterateMain(d) /\ twin' = TwinIterated(d) /\ UNCHANGED <<rng, solo, drawn, heap>>

\* one run goes on after the other has returned
MainAlone ==
    /\ pc = "loop"
    /\ twin.pc # "loop"
    /\ \E d \in AllDraws(components, itr, quiet_itr) : Iterate(d)

TwinAlone ==
    /\ pc # "loop"
    /\ TwinCanIterate
    /\ \E d \in AllDraws(components, twin.sa.itr, quiet_itr) : twin' = TwinIterated(d)
    /\ UNCHANGED main_vars

TwinTick ==
    /\ twin.pc = "loop"
    /\ ~twin.expired
    /\ twin' = [twin EXCEPT !.expired = TRUE]
    /\ UNCHANGED main_vars

TwinExit ==
    /\ twin.pc = "loop"
    /\ ~LoopGuard(twin.sa) \/ TimeBreak(twin.sa, twin.expired)
    /\ twin' = [twin EXCEPT !.pc = "returned"]
    /\ UNCHANGED main_vars

NextPair ==
    \/ PairMove \/ MainAlone \/ TwinAlone \/ Tick \/ TwinTick \/ LoopExit \/ TwinExit

SpecPair == InitPair /\ [][NextPair]_vars

(***************************************************************************)
(* Two runs for independent boards in one process, their steps             *)
(* interleaved.  Both draw from the module random, one generator whose     *)
(* k-th value is fixed by the seed; rng counts the values drawn.  A value  *)
(* stands for what one call site consumes: the jitter of one               *)
(* initial_placement, or the draws of one iteration.  twin is the second   *)
(* run: [pc, components, board, mcu_ref, placement, sa, expired].  solo    *)
(* follows the first run as it goes had it been alone in the process: its  *)
(* j-th draw is the j-th value of the generator.                           *)
(***************************************************************************)
StreamJitter(k, n) ==
    LET j == IF k % 2 = 1 THEN JITTER ELSE -JITTER
    IN [i \in 1..n |-> [jx |-> j, jy |-> j]]

\* the k-th value read as the draws of one iteration over comps
StreamDraw(comps, k, quiet) ==
    IF k < quiet + 2 \/ k >= quiet + 2 + MaxItr
    THEN Draw("translate", comps[1].ref, comps[1].ref, 0, 0, FALSE)
    ELSE CASE k % 3 = 0 -> Draw("swap", comps[1].ref, comps[2].ref, 0, 0, FALSE)
           [] k % 3 = 1 -> Draw("translate", comps[2].ref, comps[2].ref,
                                NoiseStep, -NoiseStep, TRUE)
           [] k % 3 = 2 -> Draw("rotate", comps[1].ref, comps[1].ref, 0, 0, TRUE)

ConcLists == { <<Rc("blk_a"), Rc("tp_a")>>, <<Rc("reg_a"), Rc("cap_a")>> }
TwinList == <<Rc("reg_a"), Rc("mcu_a")>>

InitConc ==
    /\ components_json = Catalog
    /\ db = [loaded |-> TRUE, data |-> Catalog]
    /\ resolved_json \in {Resolved(l) : l \in ConcLists}
    /\ board_json = SmallBoard
    /\ placement_json = Absent
    /\ board = [w |-> 3000, h |-> 2000]
    /\ components = assign_refs(Catalog, ResolvedComponents)
    /\ placement = NoDict
    /\ mcu_ref = None
    /\ current = NoDict
    /\ best = NoDict
    /\ cur_s = 0 /\ best_s = 0 /\ init_s = 0
    /\ T = 0 /\ itr = 0
    /\ expired = FALSE
    /\ exit_why = "none"
    /\ min_seen = 0
    /\ steps = {"assign_refs"}
    /\ calls = 0
    /\ last_score = 0
    /\ twin = [pc |-> "seed", components |-> assign_refs(Catalog, TwinList),
               board |-> [w |-> 4000, h |-> 3000], mcu_ref |-> "U2",
               placement |-> NoDict, sa |-> NoDict, expired |-> FALSE]
    /\ rng = 0
    /\ solo = [placement |-> NoDict, sa |-> NoDict]
    /\ drawn = NoDict
    /\ seeding = NoDict
    /\ heap = NoDict
    /\ quiet_itr = QuietItr
    /\ pc = "seed"

conc_vars == <<job_vars, db, placement_json, board, components, mcu_ref, steps,
               calls, last_score, drawn, seeding, heap>>

\* first run: placement = initial_placement(components, w, h)
ConcSeed ==
    /\ pc = "seed"
    /\ placement' = initial_placement(db.data, components, board.w, board.h,
                                      StreamJitter(rng + 1, Len(components)))
    /\ solo' = [solo EXCEPT !.placement =
                   initial_placement(db.data, components, board.w, board.h,
                                     StreamJitter(1, Len(components)))]
    /\ rng' = rng + 1
    /\ pc' = "anneal"
    /\ UNCHANGED <<conc_vars, sa_vars, expired, exit_why, min_seen, twin>>

\* first run: simulated_annealing up to the loop
ConcBegin ==
    /\ pc = "anneal"
    /\ SetSa(sa_begin(db.data, components, placement, board.w, board.h, mcu_ref))
    /\ solo' = [solo EXCEPT !.sa =
                   sa_begin(db.data, components, solo.placement, board.w, board.h, mcu_ref)]
    /\ min_seen' = init_s'
    /\ pc' = "loop"
    /\ UNCHANGED <<conc_vars, placement, expired, exit_why, twin, rng>>

\* first run: one iteration, drawing the next value of the generator
ConcIterate ==
    /\ pc = "loop"
    /\ itr < quiet_itr + MaxItr
    /\ IterateMain(StreamDraw(components, rng + 1, quiet_itr))
    /\ solo' = [solo EXCEPT !.sa =
                   sa_iteration(db.data, components, board.w, board.h, mcu_ref, solo.sa,
                                StreamDraw(components, itr + 2, quiet_itr))]
    /\ rng' = rng + 1
    /\ UNCHANGED <<twin, drawn, heap>>

twin_frame == <<conc_vars, pc, placement, sa_vars, expired, exit_why, min_seen, solo>>

\* second run: placement = initial_placement(components, w, h); of its
\* iterations the first MaxItr are explored
TwinSeed ==
    /\ twin.pc = "seed"
    /\ twin' = [twin EXCEPT
                   !.placement = initial_placement(db.data, twin.components, twin.board.w,
                                    twin.board.h, StreamJitter(rng + 1, Len(twin.components))),
                   !.pc = "anneal"]
    /\ rng' = rng + 1
    /\ UNCHANGED twin_frame

TwinBegin ==
    /\ twin.pc = "anneal"
    /\ twin' = [twin EXCEPT
                   !.sa = sa_begin(db.data, twin.components, twin.placement, twin.board.w,
                                   twin.board.h, twin.mcu_ref),
                   !.pc = "loop"]
    /\ UNCHANGED <<twin_frame, rng>>

TwinIterate ==
    /\ TwinCanIterate
    /\ twin.sa.itr < MaxItr
    /\ twin' = [twin EXCEPT
                   !.sa = sa_iteration(db.data, twin.components, twin.board.w, twin.board.h,
                                       twin.mcu_ref, twin.sa,
                                       StreamDraw(twin.components, rng + 1, quiet_itr))]
    /\ rng' = rng + 1
    /\ UNCHANGED twin_frame

TwinClock ==
    /\ twin.pc = "loop"
    /\ ~twin.expired
    /\ twin' = [twin EXCEPT !.expired = TRUE]
    /\ UNCHANGED <<twin_frame, rng>>

TwinReturn ==
    /\ twin.pc = "loop"
    /\ ~LoopGuard(twin.sa) \/ TimeBreak(twin.sa, twin.expired)
    /\ twin' = [twin EXCEPT !.pc = "returned"]
    /\ UNCHANGED <<twin_frame, rng>>

NextConc ==
    \/ ConcSeed \/ ConcBegin \/ ConcIterate \/ Tick \/ LoopExit
    \/ TwinSeed \/ TwinBegin \/ TwinIterate \/ TwinClock \/ TwinReturn

SpecConc == InitConc /\ [][NextConc]_vars


(***************************************************************************)
(* The annealer followed until it has cooled: ColdQuiet iterations of zero *)
(* translations, then every draw.  The clock may pass the cap at any loop  *)
(* boundary.  The loop body is straight-line code of one thread that keeps *)
(* running, hence the weak fairness of the iteration and of the exit.      *)
(* The fairness of the iteration is written out, []<>~ENABLED \/ []<><<>>, *)
(* with the loop condition CanIterate for ENABLED and the increment of itr *)
(* for the step.                                                           *)
(***************************************************************************)
ColdList == <<Rc("reg_a"), Rc("mcu_a")>>

\* jitter draws that give every instance the same offset
EvenJitters(n) == {jit \in JitterDraws(n) : \A k \in 1..n : jit[k] = jit[1]}

InitCold ==
    /\ components_json = Catalog
    /\ db = [loaded |-> TRUE, data |-> Catalog]
    /\ resolved_json = ResolvedMcu(ColdList, "mcu_a")
    /\ board_json = SmallBoard
    /\ placement_json = Absent
    /\ board = [w |-> 3000, h |-> 2000]
    /\ components = assign_refs(Catalog, ColdList)
    /\ placement \in {initial_placement(Catalog, components, board.w, board.h, jit) :
                         jit \in EvenJitters(Len(components))}
    /\ mcu_ref = McuRef(resolved_json, components)
    /\ LET r == sa_begin(Catalog, components, placement, board.w, board.h, mcu_ref)
       IN /\ current = r.current /\ best = r.best
          /\ cur_s = r.cur_s /\ best_s = r.best_s /\ init_s = r.init_s
          /\ T = r.T /\ itr = r.itr
          /\ min_seen = r.init_s
    /\ expired = FALSE
    /\ exit_why = "none"
    /\ steps = {"assign_refs", "initial_placement", "simulated_annealing"}
    /\ calls = 0
    /\ last_score = 0
    /\ twin = TwinIdle
    /\ rng = 0
    /\ solo = NoDict
    /\ drawn = NoDict
    /\ seeding = NoDict
    /\ heap = NoDict
    /\ quiet_itr = ColdQuiet
    /\ pc = "loop"

NextCold == Tick \/ LoopExit \/ MoveTranslate \/ MoveRotate \/ MoveSwap

SpecCold == InitCold /\ [][NextCold]_vars

\* the loop would run one more pass
CanIterate ==
    /\ pc = "loop"
    /\ LoopGuard(SaRec) /\ ~TimeBreak(SaRec, expired)
    /\ itr < quiet_itr + MaxItr

SpecColdFair ==
    /\ SpecCold
    /\ []<>(~CanIterate) \/ []<><<itr' = itr + 1>>_vars
    /\ WF_vars(LoopExit)

(***************************************************************************)
(* The first iterations of the annealer, one at a time, with the draws of  *)
(* each iteration kept in drawn.                                           *)
(***************************************************************************)
\* jitter draws that are one value throughout
PlainJitters(n) == {jit \in EvenJitters(n) : jit[1].jx = jit[1].jy}

StepJobs ==
    { Resolved(<<Rc("blk_a"), Rc("tp_a")>>),
      ResolvedMcu(<<Rc("reg_a"), Rc("mcu_a"), Rc("cap_a")>>, "mcu_a") }

InitStepMain ==
    /\ components_json = Catalog
    /\ db = [loaded |-> TRUE, data |-> Catalog]
    /\ resolved_json \in StepJobs
    /\ board_json = SmallBoard
    /\ placement_json = Absent
    /\ board = [w |-> 3000, h |-> 2000]
    /\ components = assign_refs(Catalog, ResolvedComponents)
    /\ placement \in {initial_placement(Catalog, components, board.w, board.h, jit) :
                         jit \in PlainJitters(Len(components))}
    /\ mcu_ref = McuRef(resolved_json, components)
    /\ LET r == sa_begin(Catalog, components, placement, board.w, board.h, mcu_ref)
       IN /\ current = r.current /\ best = r.best
          /\ cur_s = r.cur_s /\ best_s = r.best_s /\ init_s = r.init_s
          /\ T = r.T /\ itr = r.itr
          /\ min_seen = r.init_s
    /\ expired = FALSE
    /\ exit_why = "none"
    /\ steps = {"assign_refs", "initial_placement", "simulated_annealing"}
    /\ calls = 0
    /\ last_score = 0
    /\ twin = TwinIdle
    /\ rng = 0
    /\ solo = NoDict
    /\ drawn = NoDict
    /\ seeding = NoDict
    /\ quiet_itr = 0
    /\ pc = "loop"

InitStep == InitStepMain /\ heap = NoDict

StepMain(d) ==
    /\ itr < MaxSteps
    /\ IterateMain(d)
    /\ drawn' = d
    /\ UNCHANGED <<twin, rng, solo>>

Step(d) == StepMain(d) /\ UNCHANGED heap

StepTranslate ==
    /\ pc = "loop"
    /\ \E d \in TranslateDraws(components, itr, quiet_itr) : Step(d)

StepRotate ==
    /\ pc = "loop"
    /\ \E d \in RotateDraws(components, itr, quiet_itr) : Step(d)

StepSwap ==
    /\ pc = "loop"
    /\ \E d \in SwapDraws(components, itr, quiet_itr) : Step(d)

NextStep == StepTranslate \/ StepRotate \/ StepSwap

SpecStep == InitStep /\ [][NextStep]_vars

(***************************************************************************)
(* run() from its first line to the written file, on the jobs that anneal, *)
(* with the draws of each iteration kept in drawn.                         *)
(***************************************************************************)
TraceJobs ==
    { Resolved(<<Rc("blk_a"), Rc("tp_a")>>),
      ResolvedMcu(<<Rc("reg_a"), Rc("mcu_a")>>, "mcu_a") }

InitTrace ==
    /\ InitCommon
    /\ db = DbEmpty
    /\ resolved_json \in TraceJobs
    /\ board_json = SmallBoard
    /\ quiet_itr = QuietItr
    /\ pc = "start"

Traced(d) ==
    /\ IterateMain(d)
    /\ drawn' = d
    /\ UNCHANGED <<twin, rng, solo, heap>>

TraceTranslate ==
    /\ pc = "loop"
    /\ \E d \in TranslateDraws(components, itr, quiet_itr) : Traced(d)

TraceRotate ==
    /\ pc = "loop"
    /\ \E d \in RotateDraws(components, itr, quiet_itr) : Traced(d)

TraceSwap ==
    /\ pc = "loop"
    /\ \E d \in SwapDraws(components, itr, quiet_itr) : Traced(d)

NextTrace ==
    \/ OpenResolved \/ OpenBoard \/ CheckComponents \/ AssignRefs
    \/ InitialPlacement \/ AnnealBegin \/ Tick \/ LoopExit
    \/ TraceTranslate \/ TraceRotate \/ TraceSwap \/ Assemble

SpecTrace == InitTrace /\ [][NextTrace]_vars



(***************************************************************************)
(* initial_placement called on its own, one pass of its loop at a time.    *)
(* seeding holds its locals: order (the sorted list), k (the next index),  *)
(* zone_offsets; and the history of its passes: jit (the jitter drawn) and *)
(* cells (the zone, row and col of each pass).                             *)
(***************************************************************************)
SeedIds == {"cap_a", "tp_a", "mcu_a"}

SameZoneList == [i \in 1..MaxSameZone |-> Rc("cap_a")]
MixedZoneList ==
    <<Rc("tp_a"), Rc("cap_a"), Rc("mcu_a"), Rc("blk_a"), Rc("tp_a"), Rc("mcu_a"), Rc("tp_a")>>
WideList == <<Rc("lcd_a"), Rc("mcu_a")>>

SeedLists ==
    {[i \in 1..Len(q) |-> Rc(q[i])] : q \in SeqsUpTo(SeedIds, MaxSeedLen) \ {<<>>}}
    \cup {SameZoneList, MixedZoneList, WideList}

\* board.json without dimensions_mm: run() takes 100 x 80
DefaultBoard == [w |-> 10000, h |-> 8000]

InitSeed ==
    /\ components_json = Catalog
    /\ db = [loaded |-> TRUE, data |-> Catalog]
    /\ resolved_json \in {Resolved(l) : l \in SeedLists}
    /\ board_json \in {SmallBoard, File(NoDict)}
    /\ placement_json = Absent
    /\ board = IF board_json = SmallBoard THEN [w |-> 3000, h |-> 2000] ELSE DefaultBoard
    /\ components = assign_refs(Catalog, ResolvedComponents)
    /\ placement = NoDict
    /\ mcu_ref = None
    /\ current = NoDict
    /\ best = NoDict
    /\ cur_s = 0 /\ best_s = 0 /\ init_s = 0
    /\ T = 0 /\ itr = 0
    /\ expired = FALSE
    /\ exit_why = "none"
    /\ min_seen = 0
    /\ steps = {"assign_refs"}
    /\ calls = 0
    /\ last_score = 0
    /\ twin = TwinIdle
    /\ rng = 0
    /\ solo = NoDict
    /\ drawn = NoDict
    /\ seeding = NoDict
    /\ heap = NoDict
    /\ quiet_itr = 0
    /\ pc = "seed"

seed_frame == <<job_vars, db, placement_json, board, components, mcu_ref, sa_vars,
                expired, exit_why, min_seen, steps, calls, last_score, twin, rng, solo,
                drawn, heap>>

\* placement = {}; zone_offsets = {}; sorted(components, key=...)
SeedBegin ==
    /\ pc = "seed"
    /\ seeding' = [order |-> SortedByPriority(db.data, components), k |-> 1,
                   zone_offsets |-> NoDict, jit |-> <<>>, cells |-> <<>>]
    /\ placement' = NoDict
    /\ pc' = "seed_loop"
    /\ UNCHANGED seed_frame

\* one pass of the loop body, with the jitter draws jx, jy
SeedPass ==
    /\ pc = "seed_loop"
    /\ seeding.k <= Len(seeding.order)
    /\ \E jx \in Jitters, jy \in Jitters :
          LET rc   == seeding.order[seeding.k]
              zone == ZoneOf(get_comp(db.data, rc.component_id))
              n    == Get(seeding.zone_offsets, zone, 0)
              cell == GridCell(n)
              pos  == SeedPos(db.data, rc, n, board.w, board.h, MARGIN, jx, jy)
          IN /\ placement' = [r \in DOMAIN placement \cup {rc.ref} |->
                                 IF r = rc.ref THEN pos ELSE placement[r]]
             /\ seeding' = [seeding EXCEPT
                   !.k = seeding.k + 1,
                   !.zone_offsets = [z \in DOMAIN seeding.zone_offsets \cup {zone} |->
                                        IF z = zone THEN n + 1 ELSE seeding.zone_offsets[z]],
                   !.jit = Append(seeding.jit, [jx |-> jx, jy |-> jy]),
                   !.cells = Append(seeding.cells,
                                    [zone |-> zone, row |-> cell.row, col |-> cell.col])]
    /\ UNCHANGED <<seed_frame, pc>>

\* return placement
SeedReturn ==
    /\ pc = "seed_loop"
    /\ seeding.k > Len(seeding.order)
    /\ pc' = "seeded"
    /\ UNCHANGED <<seed_frame, placement, seeding>>

NextSeed == SeedBegin \/ SeedPass \/ SeedReturn

SpecSeed == InitSeed /\ [][NextSeed]_vars

(***************************************************************************)
(* simulated_annealing with its dicts as objects.  heap.objs maps an       *)
(* object id to the dict it holds (ref -> position entry); heap.placement, *)
(* heap.current, heap.best and heap.candidate are the ids the names are    *)
(* bound to.  An assignment to a name rebinds it; candidate[ref] = ...     *)
(* writes into the object the name is bound to.  The entries themselves    *)
(* are never written in place (lines 316, 322 and 329 store an entry under *)
(* a key), so they are values.  An object no name is bound to is dropped.  *)
(* The iterations run in step with those of the model by value, which      *)
(* decides the acceptance.                                                 *)
(***************************************************************************)
HeapIds == 0..3
NoObj == -1

\* the id of a new object, given the ids in use
HeapFresh(live) == CHOOSE i \in HeapIds \ live : \A j \in HeapIds \ live : i <= j

HeapAlias(hp, name, src, live) == [hp EXCEPT ![name] = src]

\* name = {ref: dict(pos) for ref, pos in src.items()}
HeapCopy(hp, name, src, live) ==
    LET f == HeapFresh(live)
    IN [hp EXCEPT !.objs = [@ EXCEPT ![f] = CopyOf(hp.objs[src])], ![name] = f]

\* the objects that stay reachable at the end of a pass
HeapCollect(hp) ==
    [hp EXCEPT !.candidate = NoObj,
               !.objs = [i \in HeapIds |->
                            IF i \in {hp.placement, hp.current, hp.best}
                            THEN hp.objs[i] ELSE NoDict]]

\* at the call: the caller's dict, bound to the parameter placement
heap_call(pl) ==
    [objs |-> [i \in HeapIds |-> IF i = 0 THEN pl ELSE NoDict],
     placement |-> 0, current |-> NoObj, best |-> NoObj, candidate |-> NoObj]

\* lines 281-282
heap_begin(hp) ==
    LET h1 == HeapCopy(hp, "current", hp.placement, {hp.placement})
    IN HeapCopy(h1, "best", h1.current, {h1.placement, h1.current})

\* one pass of the loop body on the objects; r is the annealer's state by value
heap_iteration(cat, comps, w, h, mref, r, hp, d) ==
    LET h1 == HeapCopy(hp, "candidate", hp.current, {hp.placement, hp.current, hp.best})
    IN IF d.move = "swap" /\ Len(comps) < 2 THEN HeapCollect(h1)
       ELSE LET h2 == [h1 EXCEPT !.objs = [@ EXCEPT ![h1.candidate] =
                          MoveOn(cat, comps, h1.objs[h1.candidate], w, h, d)]]
                new_s == score(cat, comps, h2.objs[h2.candidate], w, h, mref)
            IN IF Accepts(new_s - r.cur_s, r.T, d.lucky)
               THEN LET h3 == [h2 EXCEPT !.current = h2.candidate]
                    IN IF Improves(r, new_s)
                       THEN HeapCollect(HeapCopy(h3, "best", h3.current,
                                                 {h3.placement, h3.current}))
                       ELSE HeapCollect(h3)
               ELSE HeapCollect(h2)

InitHeap == InitStepMain /\ heap = heap_begin(heap_call(placement))

HeapStep(d) ==
    /\ StepMain(d)
    /\ heap' = heap_iteration(db.data, components, board.w, board.h, mcu_ref, SaRec, heap, d)

HeapTranslate ==
    /\ pc = "loop"
    /\ \E d \in TranslateDraws(components, itr, quiet_itr) : HeapStep(d)

HeapRotate ==
    /\ pc = "loop"
    /\ \E d \in RotateDraws(components, itr, quiet_itr) : HeapStep(d)

HeapSwap ==
    /\ pc = "loop"
    /\ \E d \in SwapDraws(components, itr, quiet_itr) : HeapStep(d)

NextHeap == HeapTranslate \/ HeapRotate \/ HeapSwap

SpecHeap == InitHeap /\ [][NextHeap]_vars

(***************************************************************************)
(* Properties.                                                             *)
(***************************************************************************)
Annealed == pc \in {"loop", "assemble", "returned"} /\ Len(components) >= 2

\* simulated_annealing has returned (best, init_s, best_s, itr) to run()
SaReturned == pc = "assemble" /\ Len(components) >= 2

\* C1: on two or more components the final (best-seen) score that
\* simulated_annealing returns is never above the initial score, whatever moves
\* were accepted or rejected and whichever condition ended the loop; the same
\* holds of the best-seen score at every loop boundary.
C1_FinalNotWorse == Annealed => best_s <= init_s

\* a return after the periodic check, with an improvement kept although the
\* working state has moved to a worse score since
C1_Witness ==
    /\ SaReturned
    /\ itr = CHECK_EVERY
    /\ best_s < init_s
    /\ cur_s > best_s

\* margin + w/2 <= x <= width - margin - w/2, and the same for y, for the
\* instance's own width and height
Contained(cat, comps, pl, w, h) ==
    \A i \in 1..Len(comps) :
       LET dims == DimsOf(get_comp(cat, comps[i].component_id))
           p    == pl[comps[i].ref]
       IN /\ MARGIN * 10 + dims.width * 5 <= p.x * 10
          /\ p.x * 10 <= w * 10 - MARGIN * 10 - dims.width * 5
          /\ MARGIN * 10 + dims.height * 5 <= p.y * 10
          /\ p.y * 10 <= h * 10 - MARGIN * 10 - dims.height * 5

\* the board has room for every instance inside the margin
BoardHolds(cat, comps, w, h) ==
    \A i \in 1..Len(comps) :
       LET dims == DimsOf(get_comp(cat, comps[i].component_id))
       IN dims.width <= w - 2 * MARGIN /\ dims.height <= h - 2 * MARGIN

\* C2: when the seed satisfies containment on a board that holds every
\* instance, every instance of the state simulated_annealing returns satisfies
\* containment for its own width and height.
C2_ReturnedContained ==
    (/\ SaReturned
     /\ BoardHolds(db.data, components, board.w, board.h)
     /\ Contained(db.data, components, placement, board.w, board.h))
    => Contained(db.data, components, best, board.w, board.h)

RefsDistinct(comps) ==
    \A i \in 1..Len(comps) : \A j \in 1..Len(comps) :
       i # j => comps[i].ref # comps[j].ref

\* C3: assign_refs gives pairwise distinct refs to all instances of one run,
\* for every input list and every catalog, explicit prefixes included.
C3_RefsDistinct == pc = "api_done" => RefsDistinct(components)

\* C4: with 0 or 1 component the run performs no annealing iteration, reports
\* iterations 0 and initial and final score 0, and writes the seed unchanged.
C4_Trivial ==
    (pc = "returned" /\ Len(ResolvedComponents) <= 1)
    => /\ itr = 0 /\ T = 0
       /\ placement_json.status = "written"
       /\ placement_json.iterations = 0
       /\ placement_json.score = [initial |-> 0, final |-> 0]
       /\ Len(placement_json.components) = Len(ResolvedComponents)
       /\ \A i \in 1..Len(placement_json.components) :
             LET c == placement_json.components[i]
             IN /\ c.ref \in DOMAIN placement
                /\ [x |-> c.x_mm, y |-> c.y_mm, rotation |-> c.rotation_deg]
                     = placement[c.ref]

\* a run on one component whose seed has a non-zero score
C4_Witness ==
    /\ pc = "returned"
    /\ Len(ResolvedComponents) = 1
    /\ placement_json.iterations = 0
    /\ score(db.data, components, placement, board.w, board.h, mcu_ref) > 0

\* the footprint as it lies on the board: width and height change places at
\* 90 and 270 degrees; inflated by the clearance on all sides
LaidOut(cat, rc, pl) ==
    LET d == get_dims(cat, rc.component_id)
        r == pl[rc.ref].rotation
    IN IF r \in {90, 270} THEN [w |-> d.h, h |-> d.w] ELSE d

Intersect(cat, a, b, pl) ==
    LET da == LaidOut(cat, a, pl)
        dd == LaidOut(cat, b, pl)
    IN /\ 2 * Abs(pl[a.ref].x - pl[b.ref].x) < da.w + dd.w
       /\ 2 * Abs(pl[a.ref].y - pl[b.ref].y) < da.h + dd.h

SomeIntersect(cat, comps, pl) ==
    \E i \in 1..Len(comps) : \E j \in (i + 1)..Len(comps) :
       Intersect(cat, comps[i], comps[j], pl)

\* C5: for every placement state, rotations included, the overlap term of the
\* score is 0 exactly when no two footprints, inflated by their clearance,
\* intersect.
C5_OverlapSound ==
    calls >= 1
    => LET wt == wire_length_score(db.data, components, current, mcu_ref)
           zt == ZoneSum(db.data, components, current, board.w, board.h, 1)
       IN (last_score - wt - zt = 0) <=> ~SomeIntersect(db.data, components, current)

\* what a run hands back
Returned(r) == [best |-> r.best, init_s |-> r.init_s, best_s |-> r.best_s, itr |-> r.itr]

\* C6: two runs with the same seed, component list, board and time budget
\* produce identical output.
C6_Deterministic ==
    (pc = "assemble" /\ twin.pc = "returned") => Returned(SaRec) = Returned(twin.sa)

\* C7: at whichever check the time cap ends the loop, simulated_annealing
\* returns a placement with an entry for every ref, whose score is the reported
\* final score, the least score over the seed and every accepted state.
C7_Anytime ==
    SaReturned
    => /\ DOMAIN best = Refs
       /\ score(db.data, components, best, board.w, board.h, mcu_ref) = best_s
       /\ best_s = min_seen

\* the cap ends the loop after moves were made and a better state was kept
C7_Witness ==
    /\ SaReturned
    /\ exit_why = "time"
    /\ itr = CHECK_EVERY
    /\ best_s < init_s
    /\ best # current

\* C8: score returns exactly wiring term + zone term + overlap term, each of
\* them non-negative, hence a non-negative score.
C8_ScoreTerms ==
    calls >= 1
    => LET wt == wire_length_score(db.data, components, current, mcu_ref)
           zt == ZoneSum(db.data, components, current, board.w, board.h, 1)
           ot == OverlapSum(db.data, components, current, 1, 2)
       IN /\ last_score = wt + zt + ot
          /\ wt >= 0 /\ zt >= 0 /\ ot >= 0
          /\ last_score >= 0

\* a score whose three terms are all positive
C8_Witness ==
    /\ calls >= 1
    /\ wire_length_score(db.data, components, current, mcu_ref) > 0
    /\ ZoneSum(db.data, components, current, board.w, board.h, 1) > 0
    /\ OverlapSum(db.data, components, current, 1, 2) > 0
    /\ Len(components) = 3

MissingInput ==
    \/ resolved_json.status # "ok"
    \/ board_json.status # "ok"
    \/ "resolved_components" \notin DOMAIN resolved_json.data

\* C10: when board.json or the component list is absent or unreadable, run
\* never attempts a placement step, never writes placement.json and does not
\* return normally; an absent component list is not taken for an empty one.
C10_MissingInputAborts ==
    MissingInput => /\ steps = {}
                    /\ placement_json = Absent
                    /\ pc # "returned"

\* the catalog with an entry of the five defaults for every id it lacks
DefaultEntry ==
    [ref_designator_prefix |-> "U", placement_zone |-> "any",
     dimensions_mm |-> [width |-> 500, height |-> 500],
     placement_priority |-> 9, courtyard_clearance_mm |-> 25]

WithDefaults(cat, comps) ==
    [id \in DOMAIN cat \cup {comps[i].component_id : i \in 1..Len(comps)} |->
        IF id \in DOMAIN cat THEN cat[id] ELSE DefaultEntry]

HasUnknownId ==
    /\ resolved_json.status = "ok"
    /\ board_json.status = "ok"
    /\ \E i \in 1..Len(ResolvedComponents) :
          ResolvedComponents[i].component_id \notin DOMAIN components_json

\* C11: a component id the catalog lacks never aborts the run, and every stage
\* (assign_refs, initial_placement, score, simulated_annealing, output) gives
\* what it gives under a catalog that holds the id with prefix "U", zone "any",
\* dimensions 5x5, priority 9 and clearance 0.25.
C11_UnknownIdDefaults ==
    HasUnknownId =>
      LET full == WithDefaults(components_json, ResolvedComponents)
      IN /\ pc # "raised"
         /\ "assign_refs" \in steps => components = assign_refs(full, ResolvedComponents)
         /\ "initial_placement" \in steps =>
               \E jit \in JitterDraws(Len(components)) :
                  placement = initial_placement(full, components, board.w, board.h, jit)
         /\ Annealed =>
               /\ cur_s = score(full, components, current, board.w, board.h, mcu_ref)
               /\ best_s = score(full, components, best, board.w, board.h, mcu_ref)
         /\ pc = "returned" =>
               /\ placement_json.status = "written"
               /\ \A i \in 1..Len(components) :
                     placement_json.components[i]
                       = OutputComponent(full, components[i], best, board.w, board.h)

\* a run that annealed an unknown id through moves, with a working state whose
\* clearance-inflated default footprint overlaps its neighbour, and wrote it
C11_Witness ==
    /\ HasUnknownId
    /\ pc = "returned"
    /\ Len(components) = 2
    /\ placement_json.iterations = CHECK_EVERY
    /\ cur_s > 0
    /\ current # placement

\* C12: when two runs for independent boards execute concurrently in one
\* process, under every interleaving neither mutates state the other reads, so
\* the first run returns what it returns when it runs alone with the same seed
\* and inputs.
C12_Isolated ==
    pc = "assemble" => Returned(SaRec) = Returned(solo.sa)

\* the instance's zone is "any" or a name outside the vocabulary
Unzoned(cat, rc) ==
    LET zone == ZoneOf(get_comp(cat, rc.component_id))
    IN zone = "any" \/ zone \notin ZONES

RECURSIVE ZonedSum(_, _, _, _, _, _)
ZonedSum(cat, comps, pl, w, h, i) ==
    IF i > Len(comps) THEN 0
    ELSE (IF Unzoned(cat, comps[i]) THEN 0
          ELSE zone_penalty(cat, comps[i].ref, comps[i].component_id, pl, w, h))
         + ZonedSum(cat, comps, pl, w, h, i + 1)

\* C13: for an instance whose zone is "any" or a name outside the vocabulary,
\* zone_centre gives the board's centre (w/2, h/2) and the instance adds
\* exactly 0 to the zone term of the score wherever it is placed: the zone term
\* is the sum over the other instances alone.
C13_UnzonedFree ==
    calls >= 1
    => /\ \A i \in 1..Len(components) :
             Unzoned(db.data, components[i])
             => zone_centre(ZoneOf(get_comp(db.data, components[i].component_id)),
                            board.w, board.h, MARGIN)
                  = [x |-> board.w \div 2, y |-> board.h \div 2]
       /\ last_score - wire_length_score(db.data, components, current, mcu_ref)
                     - OverlapSum(db.data, components, current, 1, 2)
            = ZonedSum(db.data, components, current, board.w, board.h, 1)

\* the input names no MCU, or names an id that no instance carries
NoMcu ==
    /\ resolved_json.status = "ok"
    /\ board_json.status = "ok"
    /\ LET mcu_id == Get(Get(resolved_json.data, "mcu", NoDict), "id", None)
       IN \A i \in 1..Len(ResolvedComponents) :
             ResolvedComponents[i].component_id # mcu_id

\* C14: when no instance is designated as the MCU, the wiring term is 0 for
\* every placement state the run scores (seed, working and best-seen state:
\* each score is zone term + overlap term alone) and the run raises no error.
C14_NoMcuNoWiring ==
    NoMcu =>
      /\ pc # "raised"
      /\ mcu_ref = None
      /\ Annealed =>
            /\ init_s = ZoneSum(db.data, components, placement, board.w, board.h, 1)
                        + OverlapSum(db.data, components, placement, 1, 2)
            /\ cur_s = ZoneSum(db.data, components, current, board.w, board.h, 1)
                       + OverlapSum(db.data, components, current, 1, 2)
            /\ best_s = ZoneSum(db.data, components, best, board.w, board.h, 1)
                        + OverlapSum(db.data, components, best, 1, 2)
      /\ pc = "returned" => placement_json.status = "written"

\* a run whose input names an MCU id that no instance carries, annealed
\* through moves to a working state away from the seed, and written
C14_Witness ==
    /\ NoMcu
    /\ "mcu" \in DOMAIN resolved_json.data
    /\ pc = "returned"
    /\ placement_json.iterations = CHECK_EVERY
    /\ current # placement
    /\ cur_s > 0

\* C15: the annealing loop always terminates; the returned iteration count
\* never exceeds 8000; and where the loop exits, T < T_min, or the count is
\* 8000, or the periodic check found the wall-clock cap exceeded.
C15_Terminates ==
    /\ <>(pc = "assemble")
    /\ [](itr <= MAX_ITR)
    /\ [](pc = "assemble" =>
            \/ T < T_MIN
            \/ itr = MAX_ITR
            \/ expired /\ itr % CHECK_EVERY = 0)

\* the loop ran until it was cold, the clock never passing the cap, and moved
\* the working state on the way
C15_Witness ==
    /\ pc = "assemble"
    /\ exit_why = "cold"
    /\ ~expired
    /\ T < T_MIN
    /\ itr > CHECK_EVERY
    /\ current # placement

\* t * 0.997
TimesAlpha(t) == (t \div 1000) * 997 + ((t % 1000) * 997) \div 1000

\* 80.0 * 0.997^n: T0 multiplied by 0.997 n times over (to[<<t, k>>] is t
\* multiplied k times, by halves)
T0TimesAlphaTo(n) ==
    LET to[p \in Int \X Nat] ==
          IF p[2] = 0 THEN p[1]
          ELSE IF p[2] = 1 THEN TimesAlpha(p[1])
          ELSE to[<<to[<<p[1], p[2] \div 2>>], p[2] - p[2] \div 2>>]
    IN to[<<T0, n>>]

\* C16: every executed iteration, whatever its move and whether its candidate
\* was accepted or rejected, multiplies T by 0.997 exactly once: at every loop
\* boundary, and at the return, T = 80.0 * 0.997^itr.
C16_Cooling == Annealed => T = T0TimesAlphaTo(itr)

\* a return of the cooled annealer whose last iterations rejected or accepted
\* every kind of move and left the working state worse than the best-seen one
C16_Witness ==
    /\ SaReturned
    /\ itr > quiet_itr
    /\ T = T0TimesAlphaTo(itr)
    /\ T < T_MIN
    /\ current # placement
    /\ cur_s > best_s

\* C17: the wall-clock cap is examined only before an iteration whose index is
\* a multiple of 200, the first included: an exit caused by the cap has an
\* iteration count that is a multiple of 200; an iteration once started
\* completes (the count and T advance together and the loop is still the
\* loop); and once the cap has passed no iteration starts at a multiple of 200,
\* so fewer than 200 further iterations run before the exit.
C17_PeriodicCheck ==
    /\ [](exit_why = "time" => expired /\ itr % CHECK_EVERY = 0)
    /\ [][itr' # itr => /\ pc = "loop" /\ pc' = "loop"
                        /\ itr' = itr + 1
                        /\ T' # T
                        /\ exit_why' = "none"]_vars
    /\ [][(expired /\ itr' # itr) => itr % CHECK_EVERY # 0]_vars
    /\ []((pc = "loop" /\ expired /\ itr % CHECK_EVERY = 0) => ~CanIterate)

\* the cap passed after the first check and ended the loop at a later one
C17_Witness ==
    /\ pc = "assemble"
    /\ exit_why = "time"
    /\ itr = 2 * CHECK_EVERY
    /\ T > T_MIN

\* the candidate and its score in the iteration that drew d from the working
\* state cur
CandidateOf(cur, d) == Candidate(db.data, components, cur, board.w, board.h, d)
ScoreOf(pl) == score(db.data, components, pl, board.w, board.h, mcu_ref)

\* C18: in every iteration, with delta = candidate score - current score: if
\* delta < 0 the candidate is accepted (the working state becomes the candidate
\* and the current score the candidate score); otherwise it is accepted or
\* rejected, and if rejected the working state and the current score are
\* unchanged; so the current score always equals score(working state).
C18_Acceptance ==
    /\ [](cur_s = ScoreOf(current))
    /\ [][itr' # itr =>
            LET cand  == CandidateOf(current, drawn')
                new_s == ScoreOf(cand)
            IN /\ new_s - cur_s < 0 => (current' = cand /\ cur_s' = new_s)
               /\ \/ current' = cand /\ cur_s' = new_s
                  \/ current' = current /\ cur_s' = cur_s]_vars

\* after a candidate with delta < 0 was accepted without luck, a worse one was
\* rejected: the working state still holds the first
C18_Witness ==
    /\ itr = 2
    /\ cur_s < init_s
    /\ ScoreOf(CandidateOf(current, drawn)) > cur_s
    /\ CandidateOf(current, drawn) # current
    /\ ~drawn.lucky

\* C19: the best-seen state changes only in an iteration whose candidate was
\* accepted with a score strictly below the best-seen score, and is then a copy
\* of the working state; no other move on the working state, accepted or not,
\* alters it; the best-seen score is never above the least score the working
\* state has had and equals score(best-seen state).
C19_BestSeen ==
    /\ [](Annealed => best_s = ScoreOf(best) /\ best_s <= min_seen /\ best_s <= cur_s)
    /\ [][(pc = "loop" /\ (best' # best \/ best_s' # best_s)) =>
            /\ itr' = itr + 1
            /\ cur_s' < best_s
            /\ cur_s' # cur_s
            /\ best' = current'
            /\ best_s' = cur_s']_vars
    /\ [][(pc = "loop" /\ itr' # itr /\ ~(cur_s' < best_s)) => best' = best]_vars

\* the best-seen state was replaced in one iteration and kept while later
\* accepted moves took the working state elsewhere, to the same score or worse
C19_Witness ==
    /\ SaReturned
    /\ best # placement
    /\ best # current
    /\ best_s < init_s
    /\ cur_s >= best_s
    /\ itr = CHECK_EVERY

\* the number of refs that hold the tuple t in pl
Holders(pl, t) == Cardinality({r \in DOMAIN pl : pl[r] = t})

\* C20: a swap move picks two distinct instances and its candidate differs
\* from the working state only at those two refs, whose full (x, y, rotation)
\* tuples are exchanged; every other instance keeps its tuple and the multiset
\* of tuples is preserved.
C20_SwapFrame ==
    [][(itr' # itr /\ drawn'.move = "swap") =>
         LET cand == CandidateOf(current, drawn')
             r1   == drawn'.ref
             r2   == drawn'.ref2
         IN /\ r1 # r2 /\ {r1, r2} \subseteq Refs
            /\ DOMAIN cand = DOMAIN current
            /\ cand[r1] = current[r2]
            /\ cand[r2] = current[r1]
            /\ \A r \in DOMAIN current \ {r1, r2} : cand[r] = current[r]
            /\ \A r \in DOMAIN current : Holders(cand, current[r]) = Holders(current, current[r])
            /\ current' \in {cand, current}]_vars

\* a swap of two of three instances after one of them was rotated: the
\* rotation went with the position, and the swap was accepted
C20_Witness ==
    /\ itr = 2
    /\ drawn.move = "swap"
    /\ Len(components) = 3
    /\ current[drawn.ref].rotation # current[drawn.ref2].rotation
    /\ current[drawn.ref].rotation # placement[drawn.ref].rotation
    /\ [r \in DOMAIN current |-> [x |-> current[r].x, y |-> current[r].y]]
         # [r \in DOMAIN placement |-> [x |-> placement[r].x, y |-> placement[r].y]]

RIGHT_ANGLES == {0, 90, 180, 270}

RotationsOk(pl) == \A r \in DOMAIN pl : pl[r].rotation \in RIGHT_ANGLES

CategoryPrefix(cat) ==
    CASE cat = "passive" -> "?"
      [] cat = "display" -> "LCD"
      [] cat = "connector" -> "J"
      [] cat \in {"mcu", "power", "sensor", "comms", "motor_driver"} -> "U"

Listed(comp, key, table) == key \in DOMAIN comp /\ comp[key] \in table

\* the prefix by strict precedence; an explicit prefix is a non-empty string
PrefixByPrecedence(comp) ==
    IF "ref_designator_prefix" \in DOMAIN comp /\ comp.ref_designator_prefix # ""
    THEN comp.ref_designator_prefix
    ELSE IF Listed(comp, "subcategory", DOMAIN SUB_PREFIX)
    THEN SUB_PREFIX[comp.subcategory]
    ELSE IF Listed(comp, "category",
                   {"mcu", "power", "sensor", "comms", "motor_driver", "display",
                    "connector", "passive"})
    THEN CategoryPrefix(comp.category)
    ELSE "U"

\* C22: for each instance assign_refs resolves the prefix by strict precedence:
\* the catalog entry's explicit prefix if it has one; else the subcategory
\* table's entry if the subcategory is listed; else the category table's entry
\* if the category is listed (passive "?", display "LCD", connector "J", the
\* others "U"); else "U".  The ref is that prefix followed by a counter.
C22_PrefixPrecedence ==
    pc = "api_done" =>
       /\ Len(components) = Len(ResolvedComponents)
       /\ \A i \in 1..Len(components) :
             LET comp == get_comp(components_json, ResolvedComponents[i].component_id)
             IN \E n \in 1..Len(components) :
                   components[i].ref = RefName(PrefixByPrecedence(comp), n)

\* an entry with an explicit prefix, a listed subcategory and a listed category
\* of three different prefixes, next to an id the catalog lacks
C22_Witness ==
    /\ pc = "api_done"
    /\ components_json["gen_a"] = GenEntry("K", "capacitor", "display")
    /\ components[1].ref = "K1"
    /\ components[2].ref = "U1"
    /\ components[3].ref = "K2"

\* the instances up to the i-th that resolve to the prefix of the i-th
SamePrefixUpTo(cat, comps, i) ==
    {j \in 1..i : PrefixOf(get_comp(cat, comps[j].component_id))
                    = PrefixOf(get_comp(cat, comps[i].component_id))}

\* C23: within one assign_refs run the counter of an instance is the number of
\* instances up to and including it that resolve to its prefix, so that the
\* counters of each prefix are 1, 2, ..., k in input order without gap or
\* repeat whatever lies between them; the output has the length and the order
\* of the input.
C23_Counters ==
    pc = "api_done" =>
       /\ Len(components) = Len(ResolvedComponents)
       /\ \A i \in 1..Len(components) :
             /\ components[i].component_id = ResolvedComponents[i].component_id
             /\ components[i].ref =
                   RefName(PrefixOf(get_comp(db.data, components[i].component_id)),
                           Cardinality(SamePrefixUpTo(db.data, ResolvedComponents, i)))

\* a list of MaxRefs instances of two prefixes interleaved, both counted past
\* one, the counter of one of them with two digits
C23_Witness ==
    /\ pc = "api_done"
    /\ Len(components) = MaxRefs
    /\ components[1].component_id = "hdr_a"
    /\ components[2].component_id = "ic_a"
    /\ components[3].component_id = "hdr_a"
    /\ components[3].ref = RefName("U1", 2)
    /\ components[MaxRefs].component_id = "ic_a"
    /\ components[MaxRefs].ref = RefName("U", MaxRefs - 2)

SeedRunning == pc \in {"seed_loop", "seeded"}

\* the priority and the zone of the i-th instance initial_placement processes,
\* its index in the input, and the instances of its zone processed before it
OrderPriority(i) == PriorityOf(get_comp(db.data, seeding.order[i].component_id))
OrderZone(i) == ZoneOf(get_comp(db.data, seeding.order[i].component_id))
OrderInput(i) == CHOOSE j \in 1..Len(components) : components[j] = seeding.order[i]
ZoneCountBefore(i) == Cardinality({j \in 1..(i - 1) : OrderZone(j) = OrderZone(i)})

\* C24: initial_placement processes the instances in ascending priority, those
\* of equal priority in input order; the k-th instance (from 0) it processes
\* for a zone is given the cell row = k div 4, col = k mod 4 of that zone, and
\* its seed is the position of that cell; each pass adds one to the occupancy
\* counter of the instance's zone and leaves the other counters alone, so two
\* instances of one zone never get the same cell.
C24_GridOrder ==
    /\ [](SeedRunning =>
            /\ Len(seeding.order) = Len(components)
            /\ {OrderInput(i) : i \in 1..Len(seeding.order)} = 1..Len(components)
            /\ \A i \in 1..Len(seeding.order) : \A j \in (i + 1)..Len(seeding.order) :
                  \/ OrderPriority(i) < OrderPriority(j)
                  \/ OrderPriority(i) = OrderPriority(j) /\ OrderInput(i) < OrderInput(j)
            /\ Len(seeding.cells) = seeding.k - 1
            /\ \A i \in 1..Len(seeding.cells) :
                  LET cell == [row |-> ZoneCountBefore(i) \div 4, col |-> ZoneCountBefore(i) % 4]
                  IN /\ seeding.cells[i] = [zone |-> OrderZone(i), row |-> cell.row,
                                            col |-> cell.col]
                     /\ placement[seeding.order[i].ref]
                          = SeedAt(db.data, seeding.order[i], cell, board.w, board.h, MARGIN,
                                   seeding.jit[i].jx, seeding.jit[i].jy)
            /\ \A i \in 1..Len(seeding.cells) : \A j \in 1..Len(seeding.cells) :
                  (i # j /\ seeding.cells[i].zone = seeding.cells[j].zone)
                  => seeding.cells[i] # seeding.cells[j])
    /\ [][(pc = "seed_loop" /\ pc' = "seed_loop") =>
            /\ seeding'.k = seeding.k + 1
            /\ DOMAIN seeding'.zone_offsets = DOMAIN seeding.zone_offsets \cup {OrderZone(seeding.k)}
            /\ \A z \in DOMAIN seeding'.zone_offsets :
                  seeding'.zone_offsets[z]
                    = Get(seeding.zone_offsets, z, 0) + (IF z = OrderZone(seeding.k) THEN 1 ELSE 0)]_vars

\* seven instances of three priorities and two zones on the 100 x 80 board: the
\* two MCUs went first, the passives kept their input order, and the fifth
\* instance of zone centre opened the second row, below the fourth
C24_Witness ==
    /\ pc = "seeded"
    /\ board = DefaultBoard
    /\ [i \in 1..Len(seeding.order) |-> seeding.order[i].ref]
         = <<"U1", "U3", "U2", "TP1", "C1", "TP2", "TP3">>
    /\ seeding.cells[7] = [zone |-> "centre", row |-> 1, col |-> 0]
    /\ seeding.cells[5] = [zone |-> "any", row |-> 0, col |-> 1]
    /\ placement["TP3"].y > placement["TP2"].y
    /\ placement["TP3"].x < placement["TP2"].x

\* the step the specification states, in 0.001 mm: the half-dimension plus
\* 2 mm, at least 6 mm
HalfDimensionStep(size) == Max(size * 5 + 2000, 6000)

\* the seed of rc in the cell `cell` were the grid scaled by that step
SeedAtHalfDimensionStep(cat, rc, cell, w, h, margin, jx, jy) ==
    LET comp == get_comp(cat, rc.component_id)
        dims == DimsOf(comp)
        c    == zone_centre(ZoneOf(comp), w, h, margin)
        x    == c.x * 10 + ((2 * cell.col - 3) * HalfDimensionStep(dims.width)) \div 2 + jx
        y    == c.y * 10 + ((2 * cell.row - 1) * HalfDimensionStep(dims.height)) \div 2 + jy
    IN [x |-> round2(Clamp(x, dims.width * 5, w, margin)),
        y |-> round2(Clamp(y, dims.height * 5, h, margin)),
        rotation |-> 0]

\* C25: the grid step of initial_placement on each axis is the instance's own
\* half-dimension on that axis plus 2 mm, at least 6 mm: step_x =
\* max(width/2 + 2, 6), step_y = max(height/2 + 2, 6); every seed is the
\* position of its cell in the grid of that step.
C25_HalfDimensionStep ==
    SeedRunning =>
       \A i \in 1..Len(seeding.cells) :
          placement[seeding.order[i].ref]
            = SeedAtHalfDimensionStep(db.data, seeding.order[i],
                                      [row |-> seeding.cells[i].row, col |-> seeding.cells[i].col],
                                      board.w, board.h, MARGIN,
                                      seeding.jit[i].jx, seeding.jit[i].jy)

\* C26: for every board size, zone, occupancy count and jitter value, the seed
\* that initial_placement gives an instance satisfies
\* margin + w/2 <= x <= width - margin - w/2 and
\* margin + h/2 <= y <= height - margin - h/2 for its own width w and height h.
C26_SeedContained ==
    pc = "seeded" => Contained(db.data, components, placement, board.w, board.h)

\* the placement pl with every rotation back at rot
Turned(pl, rot) == [r \in DOMAIN pl |-> [pl[r] EXCEPT !.rotation = rot]]

\* the three terms of the score of pl
ScoreTerms(pl) ==
    <<wire_length_score(db.data, components, pl, mcu_ref),
      ZoneSum(db.data, components, pl, board.w, board.h, 1),
      OverlapSum(db.data, components, pl, 1, 2)>>

\* C27: the score does not depend on any rotation: a placement state has the
\* wiring, zone and overlap terms of the state with the same positions and
\* every rotation at one angle, so two states that differ only in rotations
\* have equal terms.  So every rotate move has delta = 0, is accepted whatever
\* the random draw, and leaves the best-seen state and score as they were.
C27_RotationFree ==
    /\ [](\A rot \in RIGHT_ANGLES :
             /\ ScoreTerms(current) = ScoreTerms(Turned(current, rot))
             /\ ScoreTerms(best) = ScoreTerms(Turned(best, rot)))
    /\ [][(itr' # itr /\ drawn'.move = "rotate") =>
            LET cand == CandidateOf(current, drawn')
            IN /\ cand # current
               /\ ScoreOf(cand) - cur_s = 0
               /\ current' = cand
               /\ cur_s' = cur_s
               /\ best' = best
               /\ best_s' = best_s]_vars

\* after a move that improved the score, a rotate move whose draw was not lucky
\* was accepted: the working state has the score of the best-seen state and
\* another rotation; the wiring, zone and overlap terms are all positive
C27_Witness ==
    /\ itr = 2
    /\ drawn.move = "rotate"
    /\ ~drawn.lucky
    /\ best_s < init_s
    /\ cur_s = best_s
    /\ current[drawn.ref].rotation = 90
    /\ best[drawn.ref].rotation = 0
    /\ ScoreTerms(current)[1] > 0
    /\ ScoreTerms(current)[2] > 0
    /\ ScoreTerms(current)[3] > 0

\* C28: simulated_annealing never modifies its inputs: after any number of
\* iterations the dict passed in as placement holds the keys and the entries
\* it held at the call, and the component list is as it was; the working and
\* the best-seen state are objects of their own, and the state it would return
\* has exactly the refs of the seed.
C28_InputsIntact ==
    /\ [](/\ heap.objs[heap.placement] = placement
          /\ heap.objs[heap.current] = current
          /\ heap.objs[heap.best] = best
          /\ DOMAIN heap.objs[heap.best] = DOMAIN placement)
    /\ [][/\ placement' = placement
          /\ components' = components
          /\ heap'.placement = heap.placement
          /\ heap'.objs[heap.placement] = heap.objs[heap.placement]]_vars

\* two iterations on: the working state, the best-seen state and the seed are
\* three objects of three contents
C28_Witness ==
    /\ itr = 2
    /\ Cardinality({heap.placement, heap.current, heap.best}) = 3
    /\ heap.objs[heap.placement] = placement
    /\ heap.objs[heap.current] # placement
    /\ heap.objs[heap.best] # placement
    /\ heap.objs[heap.best] # heap.objs[heap.current]
    /\ DOMAIN heap.objs[heap.best] = DOMAIN placement

\* C29: for every instance of the output written by run, the reported
\* placement_zone is the zone initial_placement and zone_penalty used for it:
\* the catalog entry's explicit zone, else the fallback zone of its category,
\* else "any".
C29_ReportedZone ==
    (pc = "returned" /\ placement_json.status = "written") =>
       \A i \in 1..Len(placement_json.components) :
          placement_json.components[i].placement_zone
            = ZoneOf(get_comp(db.data, placement_json.components[i].component_id))

\* C30: T starts at 80.0 and every iteration multiplies it by 0.997, so the
\* loop condition T > 0.5 fails after 1690 iterations: for every input and
\* every time budget the loop executes at most 1690 iterations, the count
\* stays below the cap of 8000, and no exit is caused by the cap.
C30_ColdBeforeCap ==
    /\ [](itr <= 1690 /\ itr < MAX_ITR)
    /\ []((pc = "loop" /\ itr = 1690) => (T <= T_MIN /\ ~LoopGuard(SaRec)))
    /\ []((pc = "loop" /\ itr < 1690) => T > T_MIN)
    /\ [](exit_why # "max_itr")
    /\ [](pc = "assemble" => (exit_why = "cold" <=> itr = 1690))

\* the longest run: the clock never passed the cap and the loop ended at
\* iteration 1690, the first at which T is not above T_min
C30_Witness ==
    /\ pc = "assemble"
    /\ ~expired
    /\ itr = 1690
    /\ exit_why = "cold"
    /\ T = T0TimesAlphaTo(1690)
    /\ T0TimesAlphaTo(1689) > T_MIN

====
